---- MODULE Spec2Model ----
(***************************************************************************)
(* N-body gravity integrator and trajectory predictor of the orbit         *)
(* simulator (space_0_7.py).  Bodies are objects of a heap, so that the    *)
(* list of live bodies and the predictor's working list can be told apart  *)
(* by identity.  Floating point numbers are fixed point numbers with Scale *)
(* units per 1.0; products and quotients round toward zero.                *)
(***************************************************************************)
EXTENDS Integers, Sequences, FiniteSets, TLC

VARIABLES heap, bodies, prediction_bodies, pc, step, steps, pdt, raised,
          ticks, snap, callTicks, raceAt, last

\* the fields of OrbitSimulation besides bodies; events counts the events
\* that handle_events has taken from the queue, and program names the
\* version of the simulator that runs
VARIABLES paused, creating_planet, edit_mode, selected_body,
          creation_input_boxes, edit_input_boxes, show_predictions,
          prediction_counter, time_scale, events, program

\* the fields that only some versions have: creation_step of spave_0_3.py,
\* camera and touch_buttons of space_touch.py
VARIABLES creation_step, camera, touch_buttons

versionVars == <<program, creation_step, camera, touch_buttons>>

appVars == <<paused, creating_planet, edit_mode, selected_body,
             creation_input_boxes, edit_input_boxes, show_predictions,
             prediction_counter, time_scale, events, versionVars>>

vars == <<heap, bodies, prediction_bodies, pc, step, steps, pdt, raised,
          ticks, snap, callTicks, raceAt, last, appVars>>

(***************************************************************************)
(* Bounds of the model.                                                    *)
(***************************************************************************)
MaxBodies == 3
MaxTicks == 3
MaxSteps == 6
MaxRaces == 1
MaxEvents == 4
MaxFrames == 2
MaxShort == 1
MaxKeys == 24
\* the events of the edit dialog of space_0_4.py in one run
MaxEdits == 6

(***************************************************************************)
(* Numbers.  A float v is the integer v * Scale.  The operators compute    *)
(* in parts so that no intermediate value exceeds the result.              *)
(***************************************************************************)
Scale == 100

Abs(a) == IF a < 0 THEN -a ELSE a

Sign(a, b) == IF (a >= 0) = (b >= 0) THEN 1 ELSE -1

\* floor(a * b / Scale) for a, b >= 0
MulParts(a, b) ==
    a * (b \div Scale) + (a \div Scale) * (b % Scale)
      + ((a % Scale) * (b % Scale)) \div Scale

\* a * b, rounded toward zero: the rounding is symmetric in the sign, as
\* IEEE rounding is
FMul(a, b) == Sign(a, b) * MulParts(Abs(a), Abs(b))

\* a / b for b # 0, rounded toward zero
FDiv(a, b) == Sign(a, b) * ((Abs(a) * Scale) \div Abs(b))

\* r * r <= a * Scale, for r, a >= 0
SquareAtMost(r, a) ==
    \/ MulParts(r, r) < a
    \/ MulParts(r, r) = a /\ ((r % Scale) * (r % Scale)) % Scale = 0

SqrtTop == 4634 * Scale

RECURSIVE SqrtSearch(_, _, _)
\* the largest r in lo..hi with r * r <= a * Scale
SqrtSearch(a, lo, hi) ==
    IF lo >= hi THEN lo
    ELSE LET mid == (lo + hi + 1) \div 2
         IN IF SquareAtMost(mid, a) THEN SqrtSearch(a, mid, hi)
            ELSE SqrtSearch(a, lo, mid - 1)

\* math.sqrt(a) for a >= 0, rounded down; the root of a * Scale is at most
\* (a + Scale) / 2, and at most SqrtTop for every a the integers hold
FSqrt(a) ==
    LET top == (a + Scale) \div 2 + 1
    IN SqrtSearch(a, 0, IF top < SqrtTop THEN top ELSE SqrtTop)

RECURSIVE RootSearch(_, _, _)
\* the largest r in lo..hi with r * r <= n
RootSearch(n, lo, hi) ==
    IF lo >= hi THEN lo
    ELSE LET mid == (lo + hi + 1) \div 2
         IN IF mid * mid <= n THEN RootSearch(n, mid, hi)
            ELSE RootSearch(n, lo, mid - 1)

\* the largest |dx|, |dy| whose squares the integers can add
HypotExact == 32767

\* math.sqrt(dx * dx + dy * dy), rounded down: for |dx|, |dy| up to
\* HypotExact the root is taken of the exact sum of squares, so that it is
\* never below |dx| or |dy|, as with floats
Hypot(dx, dy) ==
    IF Abs(dx) <= HypotExact /\ Abs(dy) <= HypotExact
    THEN RootSearch(dx * dx + dy * dy, 0, Abs(dx) + Abs(dy))
    ELSE FSqrt(FMul(dx, dx) + FMul(dy, dy))

Max(a, b) == IF b > a THEN b ELSE a

(***************************************************************************)
(* Constants of space_0_7.py, in simulation units.                         *)
(***************************************************************************)
\* MIN_DIST = 0.1
MIN_DIST == Scale \div 10

\* G * MASS_SCALE * TIME_SCALE^2 / DISTANCE_SCALE^3
\*   = 6.67e-11 * 1e24 * 86400^2 / 1e24 = 0.4979...: the factor by which
\* calculate_force_from multiplies m1 * m2 / distance^2 after its unit
\* conversions.
G_SIM == Scale \div 2

\* the sampling stride of predict_future_positions
STRIDE == 5

\* trail threshold 0.5 and trail cap
TRAIL_STEP == Scale \div 2
TRAIL_CAP == 500
PSteps == 80
PERIOD == 60
UpdateSteps == 60

(***************************************************************************)
(* class Body                                                              *)
(***************************************************************************)
\* Body.__init__: a new body has empty trails, is not selected and has zero
\* force accumulators.
Body(x, y, mass, vx, vy) ==
    [x |-> x, y |-> y, mass |-> mass, vx |-> vx, vy |-> vy,
     trail |-> <<>>, prediction_trail |-> <<>>, selected |-> FALSE,
     fx |-> 0, fy |-> 0]

\* calculate_force_from without the distance floor: divides by the distance
\* itself.
calculate_force_from_unfloored(self, other) ==
    LET dx == other.x - self.x
        dy == other.y - self.y
        distance == Hypot(dx, dy)
        denominator == FMul(distance, distance)
    IN IF denominator = 0 \/ distance = 0
       THEN [exc |-> "ZeroDivisionError", fx |-> 0, fy |-> 0,
             distance |-> distance, force_magnitude |-> 0]
       ELSE LET force_magnitude ==
                    FDiv(FMul(FMul(G_SIM, self.mass), other.mass), denominator)
            IN [exc |-> "none",
                fx |-> FDiv(FMul(force_magnitude, dx), distance),
                fy |-> FDiv(FMul(force_magnitude, dy), distance),
                distance |-> distance, force_magnitude |-> force_magnitude]

\* calculate_force_from that leaves out the mass of self: the field of
\* other at self, not the force.
calculate_force_from_field(self, other) ==
    LET dx == other.x - self.x
        dy == other.y - self.y
        distance == Max(MIN_DIST, Hypot(dx, dy))
        denominator == FMul(distance, distance)
    IN IF denominator = 0 \/ distance = 0
       THEN [exc |-> "ZeroDivisionError", fx |-> 0, fy |-> 0,
             distance |-> distance, force_magnitude |-> 0]
       ELSE LET force_magnitude ==
                    FDiv(FMul(G_SIM, other.mass), denominator)
            IN [exc |-> "none",
                fx |-> FDiv(FMul(force_magnitude, dx), distance),
                fy |-> FDiv(FMul(force_magnitude, dy), distance),
                distance |-> distance, force_magnitude |-> force_magnitude]

\* Body.calculate_force_from: the force (fx, fy) on self from other, or the
\* exception the division raises; distance and force_magnitude are the
\* locals of these names.
calculate_force_from(self, other) ==
    LET dx == other.x - self.x
        dy == other.y - self.y
        distance == Max(MIN_DIST, Hypot(dx, dy))
        denominator == FMul(distance, distance)
    IN IF denominator = 0 \/ distance = 0
       THEN [exc |-> "ZeroDivisionError", fx |-> 0, fy |-> 0,
             distance |-> distance, force_magnitude |-> 0]
       ELSE LET force_magnitude ==
                    FDiv(FMul(FMul(G_SIM, self.mass), other.mass), denominator)
            IN [exc |-> "none",
                fx |-> FDiv(FMul(force_magnitude, dx), distance),
                fy |-> FDiv(FMul(force_magnitude, dy), distance),
                distance |-> distance, force_magnitude |-> force_magnitude]

\* Body.update_trail
update_trail(b) ==
    LET n == Len(b.trail)
        appended ==
            IF n = 0 \/ Abs(b.trail[n][1] - b.x) > TRAIL_STEP
                     \/ Abs(b.trail[n][2] - b.y) > TRAIL_STEP
            THEN Append(b.trail, <<b.x, b.y>>)
            ELSE b.trail
    IN [b EXCEPT !.trail = IF Len(appended) > TRAIL_CAP THEN Tail(appended)
                           ELSE appended]

\* apply_force without the test of selected: every body is moved.
apply_force_unguarded(b, fx, fy, dt) ==
    IF b.mass = 0 THEN [exc |-> "ZeroDivisionError", body |-> b]
    ELSE LET vx == b.vx + FMul(FDiv(fx, b.mass), dt)
             vy == b.vy + FMul(FDiv(fy, b.mass), dt)
             moved == [b EXCEPT !.vx = vx, !.vy = vy,
                                !.x = b.x + FMul(vx, dt),
                                !.y = b.y + FMul(vy, dt)]
         IN [exc |-> "none", body |-> update_trail(moved)]

\* apply_force as explicit Euler: the position is advanced with the velocity
\* held before the step.
apply_force_explicit(b, fx, fy, dt) ==
    IF b.selected THEN [exc |-> "none", body |-> b]
    ELSE IF b.mass = 0 THEN [exc |-> "ZeroDivisionError", body |-> b]
    ELSE LET moved == [b EXCEPT !.vx = b.vx + FMul(FDiv(fx, b.mass), dt),
                                !.vy = b.vy + FMul(FDiv(fy, b.mass), dt),
                                !.x = b.x + FMul(b.vx, dt),
                                !.y = b.y + FMul(b.vy, dt)]
         IN [exc |-> "none", body |-> update_trail(moved)]

\* Body.apply_force: the body after the call, or the exception it raises
\* (the body is then as before).
apply_force(b, fx, fy, dt) ==
    IF b.selected THEN [exc |-> "none", body |-> b]
    ELSE IF b.mass = 0 THEN [exc |-> "ZeroDivisionError", body |-> b]
    ELSE LET ax == FDiv(fx, b.mass)
             ay == FDiv(fy, b.mass)
             vx == b.vx + FMul(ax, dt)
             vy == b.vy + FMul(ay, dt)
             moved == [b EXCEPT !.vx = vx, !.vy = vy,
                                !.x = b.x + FMul(vx, dt),
                                !.y = b.y + FMul(vy, dt)]
         IN [exc |-> "none", body |-> update_trail(moved)]

\* Body.copy_state: a new Body built from x, y, mass, vx, vy alone.
copy_state(b) == Body(b.x, b.y, b.mass, b.vx, b.vy)

(***************************************************************************)
(* apply_mutual_gravity(bodies, dt) on a list ids of objects of heap h.    *)
(* Each loop returns [exc, h]: the heap when the loop ended or raised.     *)
(***************************************************************************)
Range(s) == {s[i] : i \in 1..Len(s)}

\* for body in bodies: body.fx = 0.0; body.fy = 0.0
ResetForces(h, ids) ==
    [k \in DOMAIN h |->
        IF k \in Range(ids) THEN [h[k] EXCEPT !.fx = 0, !.fy = 0] ELSE h[k]]

RECURSIVE AccumulateForces_upper(_, _, _, _)
\* a double loop that visits each pair once, for j > i only, and gives the
\* force to body i alone
AccumulateForces_upper(h, ids, i, j) ==
    IF i > Len(ids) THEN [exc |-> "none", h |-> h]
    ELSE IF j > Len(ids) THEN AccumulateForces_upper(h, ids, i + 1, 1)
    ELSE IF i >= j THEN AccumulateForces_upper(h, ids, i, j + 1)
    ELSE LET f == calculate_force_from(h[ids[i]], h[ids[j]])
         IN IF f.exc # "none" THEN [exc |-> f.exc, h |-> h]
            ELSE AccumulateForces_upper(
                    [h EXCEPT ![ids[i]].fx = @ + f.fx, ![ids[i]].fy = @ + f.fy],
                    ids, i, j + 1)

RECURSIVE AccumulateForces(_, _, _, _)
\* the double loop over (i, j), from pair (i, j) on
AccumulateForces(h, ids, i, j) ==
    IF i > Len(ids) THEN [exc |-> "none", h |-> h]
    ELSE IF j > Len(ids) THEN AccumulateForces(h, ids, i + 1, 1)
    ELSE IF i = j THEN AccumulateForces(h, ids, i, j + 1)
    ELSE LET f == calculate_force_from(h[ids[i]], h[ids[j]])
         IN IF f.exc # "none" THEN [exc |-> f.exc, h |-> h]
            ELSE AccumulateForces(
                    [h EXCEPT ![ids[i]].fx = @ + f.fx, ![ids[i]].fy = @ + f.fy],
                    ids, i, j + 1)

RECURSIVE ApplyForces(_, _, _, _)
\* for body in bodies: body.apply_force(body.fx, body.fy, dt), from index k on
ApplyForces(h, ids, k, dt) ==
    IF k > Len(ids) THEN [exc |-> "none", h |-> h]
    ELSE LET b == h[ids[k]]
             r == apply_force(b, b.fx, b.fy, dt)
         IN IF r.exc # "none" THEN [exc |-> r.exc, h |-> h]
            ELSE ApplyForces([h EXCEPT ![ids[k]] = r.body], ids, k + 1, dt)

RECURSIVE RowOfForces(_, _, _, _)
\* the forces on body k from the bodies j, j + 1, ... of the list, summed
RowOfForces(h, ids, k, j) ==
    IF j > Len(ids) THEN [exc |-> "none", fx |-> 0, fy |-> 0]
    ELSE LET rest == RowOfForces(h, ids, k, j + 1)
             f == calculate_force_from(h[ids[k]], h[ids[j]])
         IN IF j = k THEN rest
            ELSE IF f.exc # "none" THEN f
            ELSE [rest EXCEPT !.fx = @ + f.fx, !.fy = @ + f.fy]

RECURSIVE MoveInTurn(_, _, _, _)
\* body k gets its force and is moved at once, before body k + 1 gets its
\* force
MoveInTurn(h, ids, k, dt) ==
    IF k > Len(ids) THEN [exc |-> "none", h |-> h]
    ELSE LET f == RowOfForces(h, ids, k, 1)
             own == [h EXCEPT ![ids[k]].fx = f.fx, ![ids[k]].fy = f.fy]
             r == apply_force(own[ids[k]], f.fx, f.fy, dt)
         IN IF f.exc # "none" THEN [exc |-> f.exc, h |-> h]
            ELSE IF r.exc # "none" THEN [exc |-> r.exc, h |-> own]
            ELSE MoveInTurn([own EXCEPT ![ids[k]] = r.body], ids, k + 1, dt)

\* apply_mutual_gravity with one loop: force and move, body by body.
apply_mutual_gravity_in_turn(h, ids, dt) == MoveInTurn(h, ids, 1, dt)

\* apply_mutual_gravity that returns at once when there is no pair of
\* bodies to pull at each other
apply_mutual_gravity_pairs_only(h, ids, dt) ==
    IF Len(ids) < 2 THEN [exc |-> "none", h |-> h]
    ELSE LET acc == AccumulateForces(ResetForces(h, ids), ids, 1, 1)
         IN IF acc.exc # "none" THEN acc ELSE ApplyForces(acc.h, ids, 1, dt)

\* apply_mutual_gravity(bodies, dt): the heap after the call, or the
\* exception it raises
apply_mutual_gravity(h, ids, dt) ==
    LET acc == AccumulateForces(ResetForces(h, ids), ids, 1, 1)
    IN IF acc.exc # "none" THEN acc ELSE ApplyForces(acc.h, ids, 1, dt)

(***************************************************************************)
(* predict_future_positions(bodies, steps, dt)                             *)
(***************************************************************************)
\* prediction_bodies = list(bodies): the working set is the live bodies
Snapshot_aliased(h, ids) == [ids |-> ids, h |-> h]

\* prediction_bodies = [body.copy_state() for body in bodies]: new objects,
\* one per live body, in the order of the list.
Snapshot(h, ids) ==
    LET base == Cardinality(DOMAIN h)
        pids == [i \in 1..Len(ids) |-> base + i]
    IN [ids |-> pids,
        h |-> [k \in DOMAIN h \cup Range(pids) |->
                 IF k \in DOMAIN h THEN h[k]
                 ELSE copy_state(h[ids[k - base]])]]

\* a predictor that keeps the predictions of earlier calls
ClearPredictions_kept(h, ids) == h

\* for body in bodies: body.prediction_trail = []
ClearPredictions(h, ids) ==
    [k \in DOMAIN h |->
        IF k \in Range(ids) THEN [h[k] EXCEPT !.prediction_trail = <<>>]
        ELSE h[k]]

\* a loop that records every step
Sampled_every(s) == TRUE

\* the sampling test of the loop
Sampled(s) == s % STRIDE = 0

RECURSIVE StoreSamples(_, _, _, _, _)
\* for i, pred_body in enumerate(prediction_bodies):
\*     if step % 5 == 0: bodies[i].prediction_trail.append(...)
StoreSamples(h, ids, pids, s, i) ==
    IF i > Len(pids) THEN h
    ELSE IF Sampled(s)
    THEN StoreSamples(
            [h EXCEPT ![ids[i]].prediction_trail =
                          Append(@, <<h[pids[i]].x, h[pids[i]].y>>)],
            ids, pids, s, i + 1)
    ELSE StoreSamples(h, ids, pids, s, i + 1)

\* the one element of a set of one element
The(S) == CHOOSE x \in S : TRUE

RECURSIVE PredictSteps(_, _, _, _, _, _)
\* the steps s .. n - 1 of the loop of predict_future_positions: one step
\* is a round of gravity among the copies and the storing of the samples;
\* a longer run is its first half followed by its second half, begun from
\* the computed heap of the first (first and r stand for values, each
\* computed once)
PredictSteps(h, ids, pids, s, n, dt) ==
    IF s >= n THEN [exc |-> "none", h |-> h]
    ELSE IF n - s = 1
    THEN The({ IF r.exc # "none" THEN r
               ELSE [exc |-> "none", h |-> StoreSamples(r.h, ids, pids, s, 1)] :
               r \in {apply_mutual_gravity(h, pids, dt)} })
    ELSE The({ IF first.exc # "none" \/ first.h # first.h THEN first
               ELSE PredictSteps(first.h, ids, pids, (s + n) \div 2, n, dt) :
               first \in {PredictSteps(h, ids, pids, s, (s + n) \div 2, dt)} })

\* predict_future_positions(bodies, steps, dt) run from call to return:
\* the heap it leaves, the copies dropped, or the exception it raises
predict_future_positions(h, ids, n, dt) ==
    LET s == Snapshot(h, ids)
        r == PredictSteps(ClearPredictions(s.h, ids), ids, s.ids, 0, n, dt)
    IN [exc |-> r.exc, h |-> [k \in DOMAIN h |-> r.h[k]]]

(***************************************************************************)
(* class InputBox.  The text of a box is a sequence of characters.         *)
(***************************************************************************)
Digits == <<"0", "1", "2", "3", "4", "5", "6", "7", "8", "9">>

IsDigit(c) == \E d \in 1..10 : Digits[d] = c

DigitValue(c) == (CHOOSE d \in 1..10 : Digits[d] = c) - 1

\* the largest value a box is read as; stands for every larger float
ValueTop == 1000000 * Scale

RECURSIVE Pow10(_)
Pow10(n) == IF n <= 0 THEN 1 ELSE 10 * Pow10(n - 1)

\* the index after an optional sign at index i of text t
AfterSign(t, i) == IF i <= Len(t) /\ t[i] \in {"-", "+"} THEN i + 1 ELSE i

RECURSIVE AfterDigits(_, _)
\* the index after the digits that start at index i of text t
AfterDigits(t, i) ==
    IF i <= Len(t) /\ IsDigit(t[i]) THEN AfterDigits(t, i + 1) ELSE i

RECURSIVE DigitsValue(_, _, _, _)
\* the number written by the digits t[i..j-1] after the digits read as acc,
\* capped at ValueTop
DigitsValue(t, i, j, acc) ==
    IF i >= j THEN acc
    ELSE IF acc >= ValueTop THEN ValueTop
    ELSE DigitsValue(t, i + 1, j, 10 * acc + DigitValue(t[i]))

\* a float literal in text t, its parts found one after the other: sign,
\* integer digits [i1, i2), fraction digits [f1, f2), and, when e0 > f2,
\* an exponent with its sign at e0 and its digits [e1, e2); ok when t is
\* one literal and nothing else
LiteralParts(t, i1, i2, f1, f2, e0, e1, e2) ==
    [ok |-> /\ (i2 > i1 \/ f2 > f1)
            /\ (e0 > f2 => e2 > e1)
            /\ e2 = Len(t) + 1,
     negative |-> Len(t) >= 1 /\ t[1] = "-",
     i1 |-> i1, i2 |-> i2, f1 |-> f1, f2 |-> f2,
     exponent |-> IF e0 = f2 \/ e2 = e1 THEN 0
                  ELSE IF t[e0] = "-" THEN -DigitsValue(t, e1, e2, 0)
                  ELSE DigitsValue(t, e1, e2, 0)]

LiteralExponentDigits(t, i1, i2, f1, f2, e0, e1) ==
    LiteralParts(t, i1, i2, f1, f2, e0, e1,
                 IF e0 > f2 THEN AfterDigits(t, e1) ELSE f2)

LiteralExponent(t, i1, i2, f1, f2, e0) ==
    LiteralExponentDigits(t, i1, i2, f1, f2, e0,
                          IF e0 > f2 THEN AfterSign(t, e0) ELSE f2)

LiteralFraction(t, i1, i2, f1, f2) ==
    LiteralExponent(t, i1, i2, f1, f2,
                    IF f2 <= Len(t) /\ t[f2] = "e" THEN f2 + 1 ELSE f2)

LiteralPoint(t, i1, i2, f1) ==
    LiteralFraction(t, i1, i2, f1,
                    IF f1 > i2 THEN AfterDigits(t, f1) ELSE i2)

LiteralDigits(t, i1, i2) ==
    LiteralPoint(t, i1, i2,
                 IF i2 <= Len(t) /\ t[i2] = "." THEN i2 + 1 ELSE i2)

LiteralSign(t, i1) == LiteralDigits(t, i1, AfterDigits(t, i1))

Literal(t) == LiteralSign(t, AfterSign(t, 1))

\* digits * 10^shift, capped at ValueTop and rounded towards zero
Shifted(digits, shift) ==
    IF digits = 0 THEN 0
    ELSE IF shift > 8 THEN ValueTop
    ELSE IF shift >= 0
    THEN (IF digits >= ValueTop \div Pow10(shift) THEN ValueTop
          ELSE digits * Pow10(shift))
    ELSE IF shift < -9 THEN 0
    ELSE digits \div Pow10(-shift)

\* the value of the literal l of text t: its digits, shifted by the
\* exponent and the length of the fraction, in units of 1 / Scale
LiteralValue(t, l) ==
    (IF l.negative THEN -1 ELSE 1)
      * Shifted(DigitsValue(t, l.f1, l.f2, DigitsValue(t, l.i1, l.i2, 0)),
                l.exponent - (l.f2 - l.f1) + 2)

\* float(text), for a text that is a literal
ParseFloat(t) == LiteralValue(t, Literal(t))

\* InputBox.get_value: float(self.text) if self.text else 0.0, and 0.0 on
\* ValueError
get_value(box) ==
    IF box.text = <<>> THEN 0
    ELSE IF ~Literal(box.text).ok THEN 0
    ELSE ParseFloat(box.text)

RECURSIVE NaturalText(_)
\* the decimal digits of a natural number
NaturalText(n) ==
    IF n < 10 THEN <<Digits[n + 1]>>
    ELSE Append(NaturalText(n \div 10), Digits[(n % 10) + 1])

\* str(round(value, 4)) of a float of the model: its integer part, a point
\* and its one or two decimals
PlainText(v) ==
    LET a == Abs(v)
        cents == a % Scale
        fraction == IF cents % 10 = 0 THEN <<Digits[(cents \div 10) + 1]>>
                    ELSE <<Digits[(cents \div 10) + 1], Digits[(cents % 10) + 1]>>
    IN (IF v < 0 THEN <<"-">> ELSE <<>>)
          \o NaturalText(a \div Scale) \o <<".">> \o fraction

RECURSIVE Magnitude(_)
\* the decimal exponent of a natural number n >= 1
Magnitude(n) == IF n < 10 THEN 0 ELSE 1 + Magnitude(n \div 10)

\* f"{value:.3e}": four significant digits, rounded half up, and the
\* exponent with its sign and two digits at least
ExponentText(v) ==
    LET a == Abs(v)
        m == Magnitude(a)
        four == IF m <= 3 THEN a * Pow10(3 - m)
                ELSE (a + 5 * Pow10(m - 4)) \div Pow10(m - 3)
        carry == four >= 10000
        mantissa == NaturalText(IF carry THEN 1000 ELSE four)
        e == (IF carry THEN m + 1 ELSE m) - 2
        et == NaturalText(Abs(e))
    IN (IF v < 0 THEN <<"-">> ELSE <<>>)
          \o <<mantissa[1], ".">> \o SubSeq(mantissa, 2, 4)
          \o <<"e", IF e < 0 THEN "-" ELSE "+">>
          \o (IF Len(et) < 2 THEN <<"0">> \o et ELSE et)

\* InputBox.set_value(value) for a float value: the new text
set_value(v) ==
    IF Abs(v) >= 1000 * Scale \/ (Abs(v) < Scale \div 10 /\ v # 0)
    THEN ExponentText(v)
    ELSE PlainText(v)

\* InputBox(...): a box with its default text, not active
InputBox(default_text) == [text |-> default_text, active |-> FALSE]

\* setup_input_boxes: X, Y, Mass, Vx, Vy of the creation dialog
CreationBoxes ==
    << InputBox(<<"0">>), InputBox(<<"0">>),
       InputBox(<<"5", ".", "9", "7", "2">>),
       InputBox(<<"0">>), InputBox(<<"0">>) >>

\* setup_input_boxes: Mass, Vx, Vy of the edit dialog
EditBoxes == << InputBox(<<"0">>), InputBox(<<"0">>), InputBox(<<"0">>) >>

\* the zoom of the camera of space_touch.py is held in units of 1 / ZOOM_ONE,
\* the least zoom the camera allows
ZOOM_ONE == 10000000

\* Camera.__init__ of space_touch.py: zoom is 0.01
Camera ==
    [zoom |-> ZOOM_ONE \div 100, pan_x |-> 0, pan_y |-> 0, dragging |-> FALSE,
     follow |-> 0, last_mouse_pos |-> <<0, 0>>]

\* the version prog of the simulator starts: the fields of
\* OrbitSimulation.__init__ that only some versions have
Version(prog) ==
    /\ program = prog
    /\ creation_step = 1
    /\ camera = Camera
    /\ touch_buttons = <<>>

\* OrbitSimulation.__init__, but for self.bodies
AppStart ==
    /\ paused = FALSE
    /\ creating_planet = FALSE
    /\ edit_mode = FALSE
    /\ selected_body = 0
    /\ creation_input_boxes = CreationBoxes
    /\ edit_input_boxes = EditBoxes
    /\ show_predictions = FALSE
    /\ prediction_counter = -1
    /\ time_scale = Scale
    /\ events = 0
    /\ Version("space_0_7")

(***************************************************************************)
(* The state.  heap maps an object to its fields; bodies and               *)
(* prediction_bodies are lists of objects.  pc, step, steps and pdt are    *)
(* the position and the locals of a running predict_future_positions;      *)
(* raised is the exception that ended the program, if any.  ticks counts    *)
(* the live ticks; snap and callTicks record what the running prediction   *)
(* was called on, raceAt the step it had reached when the last live tick   *)
(* came (-1: none came), and last the finished prediction and its result.  *)
(***************************************************************************)
\* the bodies a run may start with: x, y, mass, vx, vy
Catalogue ==
    << Body(0, 0, 2 * Scale, 0, 0),
       Body(2 * Scale, 0, Scale, 0, Scale),
       Body(2 * Scale + 5, 0, Scale \div 2, Scale \div 2, 0),
       Body(2 * Scale, 0, Scale \div 2, 0, -(Scale \div 2)) >>

\* the timesteps a call may be given: 0.5 and 1.0
DtSet == {Scale \div 2, Scale}

Live(h, ids) == [i \in 1..Len(ids) |-> h[ids[i]]]

\* the state after construction of a list of n bodies, body i being
\* Catalogue[pick[i]], with body sel (if any) being edited, and dt the
\* timestep the predictor is given
Start(n, pick, sel, dt) ==
    /\ bodies = [i \in 1..n |-> i]
    /\ heap = [i \in 1..n |-> [Catalogue[pick[i]] EXCEPT !.selected = (i = sel)]]
    /\ prediction_bodies = <<>>
    /\ pc = "idle"
    /\ step = 0
    /\ steps = 0
    /\ pdt = dt
    /\ raised = "none"
    /\ ticks = 0
    /\ snap = <<>>
    /\ callTicks = 0
    /\ raceAt = -1
    /\ last = <<>>
    /\ AppStart

\* the ways to take n bodies of the catalogue, in its order
Picks(n) ==
    {p \in [1..n -> 1..Len(Catalogue)] :
        \A i \in 1..n : \A j \in 1..n : i < j => p[i] < p[j]}

Init ==
    \E n \in 0..MaxBodies : \E pick \in Picks(n) : \E sel \in 0..n :
    \E dt \in DtSet :
        Start(n, pick, sel, dt)

\* one tick of the live simulation: apply_mutual_gravity(self.bodies, dt)
Tick(dt) ==
    /\ raised = "none"
    /\ ticks < MaxTicks
    /\ LET r == apply_mutual_gravity(heap, bodies, dt)
       IN /\ heap' = r.h
          /\ raised' = r.exc
    /\ ticks' = ticks + 1
    /\ raceAt' = IF pc = "loop" THEN step ELSE raceAt
    /\ UNCHANGED <<bodies, prediction_bodies, pc, step, steps, pdt,
                   snap, callTicks, last>>
    /\ UNCHANGED appVars

Next == \E dt \in DtSet : Tick(dt)

Spec == Init /\ [][Next]_vars

(***************************************************************************)
(* Two bodies of any masses, at rest, the second anywhere about the first. *)
(***************************************************************************)
\* masses 0.25, 0.5, 1.0, 2.0
MassSet == {Scale \div 4, Scale \div 2, Scale, 2 * Scale}

\* where the second body is: on the first, inside MIN_DIST of it, at
\* MIN_DIST, and away from it on an axis and off the axes
PlaceSet ==
    { <<0, 0>>, <<MIN_DIST \div 2, 0>>, <<0, -MIN_DIST>>,
      <<Scale, 0>>, <<-Scale, Scale \div 2>>, <<3 * Scale, -4 * Scale>> }

InitPair ==
    \E m1 \in MassSet : \E m2 \in MassSet : \E p \in PlaceSet :
    \E dt \in DtSet :
        /\ bodies = <<1, 2>>
        /\ heap = <<Body(0, 0, m1, 0, 0), Body(p[1], p[2], m2, 0, 0)>>
        /\ prediction_bodies = <<>>
        /\ pc = "idle"
        /\ step = 0
        /\ steps = 0
        /\ pdt = dt
        /\ raised = "none"
        /\ ticks = 0
        /\ snap = <<>>
        /\ callTicks = 0
        /\ raceAt = -1
        /\ last = <<>>
        /\ AppStart

SpecPair == InitPair /\ [][Next]_vars

(***************************************************************************)
(* The predictor, with ticks of the live simulation taken between its      *)
(* steps.                                                                  *)
(***************************************************************************)
InitPredict ==
    \E n \in 0..MaxBodies : \E sel \in 0..n : \E dt \in DtSet :
        Start(n, [i \in 1..n |-> i], sel, dt)

\* predict_future_positions is called: the copies are made and the old
\* predictions cleared
PredictCall(n) ==
    /\ raised = "none"
    /\ pc = "idle"
    /\ LET s == Snapshot(heap, bodies)
       IN /\ prediction_bodies' = s.ids
          /\ heap' = ClearPredictions(s.h, bodies)
    /\ pc' = "loop"
    /\ step' = 0
    /\ steps' = n
    /\ snap' = Live(heap, bodies)
    /\ callTicks' = ticks
    /\ raceAt' = -1
    /\ UNCHANGED <<bodies, pdt, raised, ticks, last>>
    /\ UNCHANGED appVars

\* one iteration of for step in range(steps)
PredictLoop ==
    /\ raised = "none"
    /\ pc = "loop"
    /\ step < steps
    /\ LET r == apply_mutual_gravity(heap, prediction_bodies, pdt)
       IN /\ raised' = r.exc
          /\ heap' = IF r.exc # "none" THEN r.h
                     ELSE StoreSamples(r.h, bodies, prediction_bodies, step, 1)
    /\ step' = step + 1
    /\ UNCHANGED <<bodies, prediction_bodies, pc, steps, pdt, ticks,
                   snap, callTicks, raceAt, last>>
    /\ UNCHANGED appVars

\* the loop is over and the call returns: the copies are dropped
PredictReturn ==
    /\ raised = "none"
    /\ pc = "loop"
    /\ step >= steps
    /\ heap' = [k \in Range(bodies) |-> heap[k]]
    /\ prediction_bodies' = <<>>
    /\ pc' = "idle"
    /\ last' = << [steps |-> steps, from |-> callTicks,
                   trails |-> [i \in 1..Len(bodies) |->
                                  heap[bodies[i]].prediction_trail]] >>
    /\ snap' = <<>>
    /\ raceAt' = -1
    /\ UNCHANGED <<bodies, step, steps, pdt, raised, ticks, callTicks>>
    /\ UNCHANGED appVars

\* a tick of the live simulation while the predictor may be running
Race == ticks < MaxRaces /\ Tick(pdt)

\* the step counts a call may be given: none, one, a full stride, and one
\* or more steps past it
StepsSet == {0, 1, STRIDE, MaxSteps}

NextPredict ==
    \/ Race
    \/ \E n \in StepsSet : PredictCall(n)
    \/ PredictLoop
    \/ PredictReturn

SpecPredict == InitPredict /\ [][NextPredict]_vars

(***************************************************************************)
(* class OrbitSimulation of space_0_7.py: the handlers of the events and   *)
(* the physics of a frame.                                                 *)
(***************************************************************************)
\* the keys typed into a box of a dialog: a minus sign, and a letter,
\* which a number box does not take
TypedChars == {"-", "x"}

\* where a right click on empty space lands, in world coordinates: far
\* from the sun
ClickSet == { <<50 * Scale, -50 * Scale>> }

\* the boxes of a dialog that a mouse click lands on: none, the mass box
\* of the creation dialog, the second box of the edit dialog
CreationClicks == {0, 3}
EditClicks == {0, 2}

\* create_sun: the sun, at rest at the origin; its mass of 1988000 is
\* scaled to the range of the model's integers
SunMass == 2 * Scale
Sun == Body(0, 0, SunMass, 0, 0)

\* create_solar_system_preset: Sun, Earth and Moon
Preset ==
    << Sun,
       Body(1496 * Scale, 0, (5972 * Scale) \div 1000, 0, (3 * Scale) \div 10),
       Body(1496 * Scale + (3844 * Scale) \div 1000, 0, (735 * Scale) \div 10000,
            0, (3 * Scale) \div 10 + Scale \div 100) >>

Deactivated(boxes) ==
    [i \in 1..Len(boxes) |-> [boxes[i] EXCEPT !.active = FALSE]]

AnyActive(boxes) == \E i \in 1..Len(boxes) : boxes[i].active

\* InputBox.handle_event of every box for a mouse click on box k (0: on
\* no box)
ClickAt(boxes, k) ==
    [i \in 1..Len(boxes) |-> [boxes[i] EXCEPT !.active = (i = k)]]

\* InputBox.handle_event of every box for a printable key: number boxes
\* take digits and the characters of ".-e"
TypeInto(boxes, c) ==
    [i \in 1..Len(boxes) |->
        IF boxes[i].active /\ (IsDigit(c) \/ c \in {".", "-", "e"})
        THEN [boxes[i] EXCEPT !.text = Append(@, c)]
        ELSE boxes[i]]

RECURSIVE TabThrough(_, _)
\* the loop over the boxes for a Tab key, from box i on: a box that is
\* active when its turn comes hands the focus to the next one
TabThrough(boxes, i) ==
    IF i > Len(boxes) THEN boxes
    ELSE IF boxes[i].active
    THEN TabThrough(
            [[boxes EXCEPT ![i].active = FALSE]
                EXCEPT ![(i % Len(boxes)) + 1].active = TRUE],
            i + 1)
    ELSE TabThrough(boxes, i + 1)

\* no dialog is open and the program runs
Idle == raised = "none" /\ ~creating_planet /\ ~edit_mode

InitApp ==
    /\ bodies = <<1>>
    /\ heap = <<Sun>>
    /\ prediction_bodies = <<>>
    /\ pc = "idle"
    /\ step = 0
    /\ steps = 0
    /\ pdt = Scale
    /\ raised = "none"
    /\ ticks = 0
    /\ snap = <<>>
    /\ callTicks = 0
    /\ raceAt = -1
    /\ last = <<>>
    /\ AppStart

predictorVars == <<prediction_bodies, pc, step, steps, pdt, snap, callTicks,
                   raceAt, last>>

\* one more event is taken from the queue
Handled ==
    events < MaxEvents /\ events' = events + 1 /\ UNCHANGED versionVars

\* a right click on body i that opens the edit dialog without marking the
\* body as selected
RightClickBody_unmarked(i) ==
    /\ Idle
    /\ Handled
    /\ i \in 1..Len(bodies)
    /\ edit_mode' = TRUE
    /\ selected_body' = bodies[i]
    /\ edit_input_boxes' =
          LET b == heap[bodies[i]]
          IN << [text |-> set_value(b.mass), active |-> TRUE],
                [edit_input_boxes[2] EXCEPT !.text = set_value(b.vx)],
                [edit_input_boxes[3] EXCEPT !.text = set_value(b.vy)] >>
    /\ UNCHANGED <<heap, bodies, raised, ticks, predictorVars, paused,
                   creating_planet, creation_input_boxes, show_predictions,
                   prediction_counter, time_scale>>

\* handle_events, right mouse button on body i: the edit dialog opens
RightClickBody(i) ==
    /\ Idle
    /\ Handled
    /\ i \in 1..Len(bodies)
    /\ edit_mode' = TRUE
    /\ selected_body' = bodies[i]
    /\ heap' = [heap EXCEPT ![bodies[i]].selected = TRUE]
    /\ edit_input_boxes' =
          LET b == heap[bodies[i]]
          IN << [text |-> set_value(b.mass), active |-> TRUE],
                [edit_input_boxes[2] EXCEPT !.text = set_value(b.vx)],
                [edit_input_boxes[3] EXCEPT !.text = set_value(b.vy)] >>
    /\ UNCHANGED <<bodies, raised, ticks, predictorVars, paused,
                   creating_planet, creation_input_boxes, show_predictions,
                   prediction_counter, time_scale>>

\* handle_events, right mouse button on empty space at world position p:
\* the creation dialog opens
RightClickSpace(p) ==
    /\ Idle
    /\ Handled
    /\ Len(bodies) < MaxBodies
    /\ creating_planet' = TRUE
    /\ creation_input_boxes' =
          [i \in 1..Len(creation_input_boxes) |->
             IF i = 1 THEN [text |-> set_value(p[1]), active |-> TRUE]
             ELSE IF i = 2
             THEN [creation_input_boxes[2] EXCEPT !.text = set_value(-p[2])]
             ELSE creation_input_boxes[i]]
    /\ UNCHANGED <<heap, bodies, raised, ticks, predictorVars, paused,
                   edit_mode, selected_body, edit_input_boxes,
                   show_predictions, prediction_counter, time_scale>>

\* handle_events, key Space
KeySpace ==
    /\ Idle
    /\ Handled
    /\ paused' = ~paused
    /\ UNCHANGED <<heap, bodies, raised, ticks, predictorVars,
                   creating_planet, edit_mode, selected_body,
                   creation_input_boxes, edit_input_boxes, show_predictions,
                   prediction_counter, time_scale>>

\* handle_events, key 1: create_solar_system_preset
Key1 ==
    /\ Idle
    /\ Handled
    /\ bodies' = [i \in 1..Len(Preset) |-> i]
    /\ heap' = Preset
    /\ UNCHANGED <<raised, ticks, predictorVars, paused, creating_planet,
                   edit_mode, selected_body, creation_input_boxes,
                   edit_input_boxes, show_predictions, prediction_counter,
                   time_scale>>

\* handle_events, key P: the predictions are switched, and drawn afresh
\* when switched on
KeyP ==
    /\ Idle
    /\ Handled
    /\ show_predictions' = ~show_predictions
    /\ IF ~show_predictions
       THEN \E r \in {predict_future_positions(heap, bodies, PSteps, Scale)} :
               heap' = r.h /\ raised' = r.exc
       ELSE UNCHANGED <<heap, raised>>
    /\ UNCHANGED <<bodies, ticks, predictorVars, paused, creating_planet,
                   edit_mode, selected_body, creation_input_boxes,
                   edit_input_boxes, prediction_counter, time_scale>>

\* handle_events, key R: the simulation is reset to the sun alone
KeyR ==
    /\ Idle
    /\ Handled
    /\ bodies' = <<1>>
    /\ heap' = <<Sun>>
    /\ edit_mode' = FALSE
    /\ selected_body' = 0
    /\ paused' = FALSE
    /\ time_scale' = Scale
    /\ UNCHANGED <<raised, ticks, predictorVars, creating_planet,
                   creation_input_boxes, edit_input_boxes, show_predictions,
                   prediction_counter>>

\* create_planet_from_input
create_planet_from_input(h, ids, boxes) ==
    LET planet == Body(get_value(boxes[1]), get_value(boxes[2]),
                       get_value(boxes[3]), get_value(boxes[4]),
                       get_value(boxes[5]))
    IN [h |-> Append(h, planet), ids |-> Append(ids, Len(h) + 1),
        boxes |-> Deactivated(boxes)]

\* handle_planet_creation for one event of the creation dialog: a key
\* typed, Tab, Enter, Escape, or a mouse click on box k
CreationEvent(kind, c, k) ==
    /\ raised = "none"
    /\ creating_planet
    /\ Handled
    /\ \/ /\ kind = "key"
          /\ creation_input_boxes' = TypeInto(creation_input_boxes, c)
          /\ UNCHANGED <<heap, bodies, creating_planet>>
       \/ /\ kind = "tab"
          /\ creation_input_boxes' = TabThrough(creation_input_boxes, 1)
          /\ UNCHANGED <<heap, bodies, creating_planet>>
       \/ /\ kind = "click"
          /\ creation_input_boxes' = ClickAt(creation_input_boxes, k)
          /\ UNCHANGED <<heap, bodies, creating_planet>>
       \/ /\ kind = "enter"
          /\ AnyActive(creation_input_boxes)
          /\ LET r == create_planet_from_input(heap, bodies,
                                               creation_input_boxes)
             IN /\ heap' = r.h
                /\ bodies' = r.ids
                /\ creation_input_boxes' = r.boxes
          /\ creating_planet' = FALSE
       \/ /\ kind = "escape"
          /\ creating_planet' = FALSE
          /\ creation_input_boxes' = Deactivated(creation_input_boxes)
          /\ UNCHANGED <<heap, bodies>>
    /\ UNCHANGED <<raised, ticks, predictorVars, paused, edit_mode,
                   selected_body, edit_input_boxes, show_predictions,
                   prediction_counter, time_scale>>

\* apply_edit_values
apply_edit_values(h, sel, boxes) ==
    [h |-> IF sel # 0
           THEN [h EXCEPT ![sel].mass = get_value(boxes[1]),
                          ![sel].vx = get_value(boxes[2]),
                          ![sel].vy = get_value(boxes[3])]
           ELSE h,
     boxes |-> Deactivated(boxes)]

\* handle_planet_editing for one event of the edit dialog
EditEvent(kind, c, k) ==
    /\ raised = "none"
    /\ ~creating_planet
    /\ edit_mode
    /\ selected_body # 0
    /\ Handled
    /\ \/ /\ kind = "key"
          /\ edit_input_boxes' = TypeInto(edit_input_boxes, c)
          /\ UNCHANGED <<heap, edit_mode, selected_body>>
       \/ /\ kind = "tab"
          /\ edit_input_boxes' = TabThrough(edit_input_boxes, 1)
          /\ UNCHANGED <<heap, edit_mode, selected_body>>
       \/ /\ kind = "click"
          /\ edit_input_boxes' = ClickAt(edit_input_boxes, k)
          /\ UNCHANGED <<heap, edit_mode, selected_body>>
       \/ /\ kind = "enter"
          /\ AnyActive(edit_input_boxes)
          /\ LET r == apply_edit_values(heap, selected_body,
                                        edit_input_boxes)
             IN /\ heap' = [r.h EXCEPT ![selected_body].selected = FALSE]
                /\ edit_input_boxes' = r.boxes
          /\ edit_mode' = FALSE
          /\ selected_body' = 0
       \/ /\ kind = "escape"
          /\ edit_mode' = FALSE
          /\ heap' = [heap EXCEPT ![selected_body].selected = FALSE]
          /\ selected_body' = 0
          /\ edit_input_boxes' = Deactivated(edit_input_boxes)
    /\ UNCHANGED <<bodies, raised, ticks, predictorVars, paused,
                   creating_planet, creation_input_boxes, show_predictions,
                   prediction_counter, time_scale>>

\* an update_physics that runs the physics whether or not the simulation
\* is paused or a dialog is open
update_physics_heedless ==
    /\ raised = "none"
    /\ ticks < MaxFrames
    /\ ticks' = ticks + 1
    /\ LET r == apply_mutual_gravity(heap, bodies, time_scale)
       IN heap' = r.h /\ raised' = r.exc
    /\ UNCHANGED <<bodies, predictorVars, paused, creating_planet, edit_mode,
                   selected_body, creation_input_boxes, edit_input_boxes,
                   show_predictions, prediction_counter, time_scale, events,
                   versionVars>>

\* update_physics, once a frame
update_physics ==
    /\ raised = "none"
    /\ ticks < MaxFrames
    /\ ticks' = ticks + 1
    /\ IF ~paused /\ ~creating_planet /\ ~edit_mode
       THEN \E r \in {apply_mutual_gravity(heap, bodies, time_scale)} :
               LET dt == time_scale
                   counting == r.exc = "none" /\ show_predictions
                               /\ Len(bodies) > 0
                   counter == IF ~counting THEN prediction_counter
                              ELSE prediction_counter + 1
               IN /\ prediction_counter' = counter
                  /\ \E q \in {IF counting /\ counter % PERIOD = 0
                                THEN predict_future_positions(r.h, bodies,
                                                              UpdateSteps, dt)
                                ELSE r} :
                        heap' = q.h /\ raised' = q.exc
       ELSE UNCHANGED <<heap, raised, prediction_counter>>
    /\ UNCHANGED <<bodies, predictorVars, paused, creating_planet, edit_mode,
                   selected_body, creation_input_boxes, edit_input_boxes,
                   show_predictions, time_scale, events,
                   versionVars>>

EventKinds == {"key", "tab", "click", "enter", "escape"}

NextApp ==
    \/ \E i \in 1..MaxBodies : RightClickBody(i)
    \/ \E p \in ClickSet : RightClickSpace(p)
    \/ KeySpace
    \/ Key1
    \/ KeyP
    \/ KeyR
    \/ \E kind \in EventKinds, c \in TypedChars, k \in CreationClicks :
          CreationEvent(kind, c, k)
    \/ \E kind \in EventKinds, c \in TypedChars, k \in EditClicks :
          EditEvent(kind, c, k)
    \/ update_physics

SpecApp == InitApp /\ [][NextApp]_vars

(***************************************************************************)
(* space_beta.py: the integrator of the earlier version, in pixels, and    *)
(* the flight of bodies that fills their trails in both versions.          *)
(***************************************************************************)
\* G = 0.8, MIN_DIST = 10 and the dt of update_physics, 0.5
G_BETA == (8 * Scale) \div 10
MIN_DIST_BETA == 10 * Scale
DT_BETA == Scale \div 2
TRAIL_CAP_BETA == 200

\* int(v): the integer part of a float
IntPart(v) == IF v < 0 THEN -((-v) \div Scale) ELSE v \div Scale

\* Body.calculate_force_from of space_beta.py
calculate_force_from_beta(self, other) ==
    LET dx == other.x - self.x
        dy == other.y - self.y
        distance == Max(MIN_DIST_BETA, Hypot(dx, dy))
        force_magnitude ==
            FDiv(FMul(FMul(G_BETA, self.mass), other.mass),
                 FMul(distance, distance))
    IN [exc |-> "none",
        fx |-> FDiv(FMul(force_magnitude, dx), distance),
        fy |-> FDiv(FMul(force_magnitude, dy), distance)]

\* a trail that grows without bound
update_trail_beta_uncapped(b) ==
    LET n == Len(b.trail)
        current_pos == <<IntPart(b.x), IntPart(b.y)>>
    IN [b EXCEPT !.trail = IF n = 0 \/ b.trail[n] # current_pos
                           THEN Append(b.trail, current_pos) ELSE b.trail]

\* Body.update_trail of space_beta.py
update_trail_beta(b) ==
    LET n == Len(b.trail)
        current_pos == <<IntPart(b.x), IntPart(b.y)>>
        appended == IF n = 0 \/ b.trail[n] # current_pos
                    THEN Append(b.trail, current_pos) ELSE b.trail
    IN [b EXCEPT !.trail = IF Len(appended) > TRAIL_CAP_BETA
                           THEN Tail(appended) ELSE appended]

\* Body.apply_force of space_beta.py
apply_force_beta(b, fx, fy, dt) ==
    IF b.selected THEN [exc |-> "none", body |-> b]
    ELSE IF b.mass = 0 THEN [exc |-> "ZeroDivisionError", body |-> b]
    ELSE LET ax == FDiv(fx, b.mass)
             ay == FDiv(fy, b.mass)
             vx == b.vx + FMul(ax, dt)
             vy == b.vy + FMul(ay, dt)
             moved == [b EXCEPT !.vx = vx, !.vy = vy,
                                !.x = b.x + FMul(vx, dt),
                                !.y = b.y + FMul(vy, dt)]
         IN [exc |-> "none", body |-> update_trail_beta(moved)]

RECURSIVE AccumulateForces_beta(_, _, _, _)
\* the double loop over (i, j) of space_beta.py, from pair (i, j) on
AccumulateForces_beta(h, ids, i, j) ==
    IF i > Len(ids) THEN [exc |-> "none", h |-> h]
    ELSE IF j > Len(ids) THEN AccumulateForces_beta(h, ids, i + 1, 1)
    ELSE IF i = j THEN AccumulateForces_beta(h, ids, i, j + 1)
    ELSE LET f == calculate_force_from_beta(h[ids[i]], h[ids[j]])
         IN AccumulateForces_beta(
               [h EXCEPT ![ids[i]].fx = @ + f.fx, ![ids[i]].fy = @ + f.fy],
               ids, i, j + 1)

RECURSIVE ApplyForces_beta(_, _, _, _)
\* for body in bodies: body.apply_force(body.fx, body.fy, dt)
ApplyForces_beta(h, ids, k, dt) ==
    IF k > Len(ids) THEN [exc |-> "none", h |-> h]
    ELSE LET b == h[ids[k]]
             r == apply_force_beta(b, b.fx, b.fy, dt)
         IN IF r.exc # "none" THEN [exc |-> r.exc, h |-> h]
            ELSE ApplyForces_beta([h EXCEPT ![ids[k]] = r.body], ids, k + 1, dt)

\* apply_mutual_gravity of space_beta.py
apply_mutual_gravity_beta(h, ids, dt) ==
    ApplyForces_beta(AccumulateForces_beta(ResetForces(h, ids), ids, 1, 1).h,
                     ids, 1, dt)

\* create_sun of space_beta.py: the sun, at rest in the middle of the
\* window; the masses of this version (6000 for the sun, 200 .. 800 for a
\* planet, steps of 50) are given in units of 1000
Sun_beta == Body(500 * Scale, 350 * Scale, 6 * Scale, 0, 0)

\* create_random_planet: the places of the clicks on empty space, with the
\* mass and the velocity drawn for the planet
PlanetSet_beta ==
    { Body(600 * Scale, 350 * Scale, Scale \div 2, 3 * Scale, 0),
      Body(500 * Scale, 150 * Scale, Scale \div 5,
           -((3 * Scale) \div 2), 2 * Scale) }

\* the step of the keys Up and Down, and the least mass Down leaves
MASS_STEP_BETA == Scale \div 20

\* the step of the keys A, D, W and S
SPEED_STEP_BETA == Scale \div 2

InitBeta ==
    /\ bodies = <<1>>
    /\ heap = <<Sun_beta>>
    /\ prediction_bodies = <<>>
    /\ pc = "idle"
    /\ step = 0
    /\ steps = 0
    /\ pdt = DT_BETA
    /\ raised = "none"
    /\ ticks = 0
    /\ snap = <<>>
    /\ callTicks = 0
    /\ raceAt = -1
    /\ last = <<>>
    /\ paused = FALSE
    /\ creating_planet = FALSE
    /\ edit_mode = FALSE
    /\ selected_body = 0
    /\ creation_input_boxes = <<>>
    /\ edit_input_boxes = <<>>
    /\ show_predictions = FALSE
    /\ prediction_counter = -1
    /\ time_scale = Scale
    /\ events = 0
    /\ Version("space_beta")

\* what no handler of space_beta.py touches
idleVars == <<raised, ticks, predictorVars, creating_planet,
              creation_input_boxes, edit_input_boxes, show_predictions,
              prediction_counter, time_scale>>

\* handle_events of space_beta.py, right mouse button on body i
RightClickBody_beta(i) ==
    /\ program = "space_beta"
    /\ Handled
    /\ i \in 1..Len(bodies)
    /\ edit_mode' = TRUE
    /\ selected_body' = bodies[i]
    /\ heap' = [heap EXCEPT ![bodies[i]].selected = TRUE]
    /\ UNCHANGED <<bodies, paused, idleVars>>

\* handle_events of space_beta.py, right mouse button on empty space
RightClickSpace_beta(planet) ==
    /\ program = "space_beta"
    /\ Handled
    /\ Len(bodies) < MaxBodies
    /\ heap' = Append(heap, planet)
    /\ bodies' = Append(bodies, Len(heap) + 1)
    /\ UNCHANGED <<paused, edit_mode, selected_body, idleVars>>

\* handle_events of space_beta.py, a key: Space, Return or Escape, Up,
\* Down, A, D, W, S, C, R
Key_beta(key) ==
    /\ program = "space_beta"
    /\ Handled
    /\ paused' = IF key = "space" THEN ~paused ELSE paused
    /\ IF edit_mode /\ selected_body # 0
       THEN /\ UNCHANGED bodies
            /\ IF key \in {"return", "escape"}
               THEN /\ heap' = [heap EXCEPT ![selected_body].selected = FALSE]
                    /\ edit_mode' = FALSE
                    /\ selected_body' = 0
               ELSE /\ UNCHANGED <<edit_mode, selected_body>>
                    /\ heap' =
                         [heap EXCEPT ![selected_body] =
                            IF key = "up"
                            THEN [@ EXCEPT !.mass = @ + MASS_STEP_BETA]
                            ELSE IF key = "down"
                            THEN [@ EXCEPT !.mass =
                                     Max(MASS_STEP_BETA, @ - MASS_STEP_BETA)]
                            ELSE IF key = "a"
                            THEN [@ EXCEPT !.vx = @ - SPEED_STEP_BETA]
                            ELSE IF key = "d"
                            THEN [@ EXCEPT !.vx = @ + SPEED_STEP_BETA]
                            ELSE IF key = "w"
                            THEN [@ EXCEPT !.vy = @ - SPEED_STEP_BETA]
                            ELSE IF key = "s"
                            THEN [@ EXCEPT !.vy = @ + SPEED_STEP_BETA]
                            ELSE @]
       ELSE IF key = "c"
       THEN /\ heap' = [k \in DOMAIN heap |->
                          IF k \in Range(bodies)
                          THEN [heap[k] EXCEPT !.trail = <<>>] ELSE heap[k]]
            /\ UNCHANGED <<bodies, edit_mode, selected_body>>
       ELSE IF key = "r"
       THEN /\ bodies' = <<1>>
            /\ heap' = <<Sun_beta>>
            /\ edit_mode' = FALSE
            /\ selected_body' = 0
       ELSE UNCHANGED <<heap, bodies, edit_mode, selected_body>>
    /\ UNCHANGED idleVars

Keys_beta == {"space", "return", "escape", "up", "down", "a", "d", "w", "s",
              "c", "r"}

\* update_physics of space_beta.py, once a frame
update_physics_beta ==
    /\ program = "space_beta"
    /\ raised = "none"
    /\ ticks < MaxFrames
    /\ ticks' = ticks + 1
    /\ LET r == apply_mutual_gravity_beta(heap, bodies, DT_BETA)
       IN heap' = r.h /\ raised' = r.exc
    /\ UNCHANGED <<bodies, predictorVars, appVars>>

NextBeta ==
    \/ \E i \in 1..MaxBodies : RightClickBody_beta(i)
    \/ \E planet \in PlanetSet_beta : RightClickSpace_beta(planet)
    \/ \E key \in Keys_beta : Key_beta(key)
    \/ update_physics_beta

SpecBeta == InitBeta /\ [][NextBeta]_vars

\* the versions whose trails are capped, and the cap of each
TrailPrograms == {"space_0_7", "space_beta"}
TrailCap(prog) == IF prog = "space_beta" THEN TRAIL_CAP_BETA ELSE TRAIL_CAP

\* one physics tick of a version
PhysicsTick(prog, h, ids, dt) ==
    IF prog = "space_beta" THEN apply_mutual_gravity_beta(h, ids, dt)
    ELSE apply_mutual_gravity(h, ids, dt)

RECURSIVE Flight(_, _, _, _, _)
\* the heap after n physics ticks of dt: one tick, or the first half of the
\* ticks followed by the second half, begun from the computed heap of the
\* first
Flight(prog, h, ids, n, dt) ==
    IF n = 0 THEN h
    ELSE IF n = 1 THEN PhysicsTick(prog, h, ids, dt).h
    ELSE The({ IF first = first
               THEN Flight(prog, first, ids, n - n \div 2, dt) ELSE h :
               first \in {Flight(prog, h, ids, n \div 2, dt)} })

\* the velocities of the bodies in flight: too far from one another to
\* pull, one crossing a trail step every tick, one not
Fleets ==
    { << <<3 * Scale, 0>> >>,
      << <<Scale \div 2, 0>> >>,
      << <<-2 * Scale, 3 * Scale>>, <<3 * Scale, 0>> >>,
      << <<Scale \div 2, 0>>, <<-2 * Scale, 3 * Scale>> >> }

\* body i of a fleet starts 100 units above body i - 1
Launch(fleet) ==
    [i \in 1..Len(fleet) |->
        Body(0, (i - 1) * 100 * Scale, Scale, fleet[i][1], fleet[i][2])]

\* the bodies have flown for all the ticks that fill a trail but
\* MaxShort - short of them
InitTrail ==
    \E prog \in TrailPrograms, fleet \in Fleets, short \in 0..MaxShort :
      \E dt \in IF prog = "space_beta" THEN {DT_BETA} ELSE DtSet :
        /\ bodies = [i \in 1..Len(fleet) |-> i]
        /\ heap = Flight(prog, Launch(fleet), [i \in 1..Len(fleet) |-> i],
                         TrailCap(prog) - short, dt)
        /\ prediction_bodies = <<>>
        /\ pc = "idle"
        /\ step = 0
        /\ steps = 0
        /\ pdt = dt
        /\ raised = "none"
        /\ ticks = 0
        /\ snap = <<>>
        /\ callTicks = 0
        /\ raceAt = -1
        /\ last = <<>>
        /\ paused = FALSE
        /\ creating_planet = FALSE
        /\ edit_mode = FALSE
        /\ selected_body = 0
        /\ creation_input_boxes = CreationBoxes
        /\ edit_input_boxes = EditBoxes
        /\ show_predictions = FALSE
        /\ prediction_counter = -1
        /\ time_scale = Scale
        /\ events = 0
        /\ Version(prog)

\* update_physics of either version, with no dialog open: dt is 0.5 in
\* space_beta.py and the time scale in space_0_7.py
TrailTick(dt) ==
    /\ raised = "none"
    /\ ticks < MaxTicks
    /\ program = "space_beta" => dt = DT_BETA
    /\ LET r == PhysicsTick(program, heap, bodies, dt)
       IN heap' = r.h /\ raised' = r.exc
    /\ ticks' = ticks + 1
    /\ UNCHANGED <<bodies, predictorVars, appVars>>

\* handle_events, key C, of either version: the trails are cleared
KeyC ==
    /\ raised = "none"
    /\ heap' = [k \in DOMAIN heap |->
                  IF k \in Range(bodies)
                  THEN [heap[k] EXCEPT !.trail = <<>>] ELSE heap[k]]
    /\ UNCHANGED <<bodies, raised, ticks, predictorVars, appVars>>

NextTrail ==
    \/ \E dt \in DtSet : TrailTick(dt)
    \/ KeyC

SpecTrail == InitTrail /\ [][NextTrail]_vars

(***************************************************************************)
(* space.py: the first version.  Its SI values are given in the units of   *)
(* space_0_7.py (1e8 m, 1 day, 1e24 kg), in which G is G_SIM.              *)
(***************************************************************************)
\* the positions of the "Sun Mass" slider, at the low end of its range of
\* 1e28 .. 1e32 kg
SunMassSet == {10000 * Scale, 20000 * Scale}

\* Body.__init__ of space.py and the velocity that setup_solar_system gives
SpaceBody(x, mass, vy, is_sun) ==
    [x |-> x, y |-> 0, mass |-> mass, vx |-> 0, vy |-> vy,
     orbit_trail |-> <<>>, is_sun |-> is_sun]

\* setup_solar_system: Sun, Earth, Mars, Venus
SolarSystem ==
    << SpaceBody(0, 10000 * Scale, (173 * Scale) \div 100, TRUE),
       SpaceBody(-1496 * Scale, (5972 * Scale) \div 1000,
                 (2573 * Scale) \div 100, FALSE),
       SpaceBody(-2279 * Scale, (639 * Scale) \div 1000,
                 (2080 * Scale) \div 100, FALSE),
       SpaceBody(-1082 * Scale, (4867 * Scale) \div 1000,
                 (3026 * Scale) \div 100, FALSE) >>

\* Body.gravitational_force
gravitational_force(self, other) ==
    LET dx == other.x - self.x
        dy == other.y - self.y
        distance == Hypot(dx, dy)
    IN IF distance = 0 THEN [fx |-> 0, fy |-> 0]
       ELSE LET force_magnitude ==
                    FDiv(FMul(FMul(G_SIM, self.mass), other.mass),
                         Max(1, FMul(distance, distance)))
            IN [fx |-> FDiv(FMul(force_magnitude, dx), distance),
                fy |-> FDiv(FMul(force_magnitude, dy), distance)]

RECURSIVE NetForce_space(_, _, _, _)
\* the loop of update_position over the other bodies, from body j on
NetForce_space(h, ids, k, j) ==
    IF j > Len(ids) THEN [fx |-> 0, fy |-> 0]
    ELSE LET rest == NetForce_space(h, ids, k, j + 1)
             f == gravitational_force(h[ids[k]], h[ids[j]])
         IN IF j = k THEN rest
            ELSE [fx |-> f.fx + rest.fx, fy |-> f.fy + rest.fy]

\* Body.update_position(bodies, timestep) of body k
update_position(h, ids, k, timestep) ==
    LET self == h[ids[k]]
        total == NetForce_space(h, ids, k, 1)
        vx == self.vx + FMul(FDiv(total.fx, self.mass), timestep)
        vy == self.vy + FMul(FDiv(total.fy, self.mass), timestep)
        x == self.x + FMul(vx, timestep)
        y == self.y + FMul(vy, timestep)
    IN IF self.is_sun THEN h
       ELSE [h EXCEPT ![ids[k]] =
                [self EXCEPT !.vx = vx, !.vy = vy, !.x = x, !.y = y,
                             !.orbit_trail = Append(@, <<x, y>>)]]

\* the places of all bodies
Places(h, ids) == [j \in 1..Len(ids) |-> <<h[ids[j]].x, h[ids[j]].y>>]

RECURSIVE UpdateBodies(_, _, _, _, _)
\* for body in self.bodies: body.update_position(self.bodies, TIMESTEP),
\* from body k on; read holds, for each body updated so far, the places
\* of the bodies at the time its force was computed
UpdateBodies(h, ids, k, timestep, read) ==
    IF k > Len(ids) THEN [h |-> h, read |-> read]
    ELSE UpdateBodies(update_position(h, ids, k, timestep), ids, k + 1,
                      timestep, Append(read, Places(h, ids)))

\* the mass of the first sun of the list is set from the slider
WithSunMass(h, ids, sun_mass) ==
    IF \E k \in 1..Len(ids) : h[ids[k]].is_sun
    THEN LET k == CHOOSE k \in 1..Len(ids) :
                     /\ h[ids[k]].is_sun
                     /\ \A j \in 1..(k - 1) : ~h[ids[j]].is_sun
         IN [h EXCEPT ![ids[k]].mass = sun_mass]
    ELSE h

InitSpace ==
    /\ bodies = [i \in 1..Len(SolarSystem) |-> i]
    /\ heap = SolarSystem
    /\ prediction_bodies = <<>>
    /\ pc = "idle"
    /\ step = 0
    /\ steps = 0
    /\ pdt = Scale
    /\ raised = "none"
    /\ ticks = 0
    /\ snap = <<>>
    /\ callTicks = 0
    /\ raceAt = -1
    /\ last = <<>>
    /\ paused = FALSE
    /\ creating_planet = FALSE
    /\ edit_mode = FALSE
    /\ selected_body = 0
    /\ creation_input_boxes = <<>>
    /\ edit_input_boxes = <<>>
    /\ show_predictions = FALSE
    /\ prediction_counter = -1
    /\ time_scale = Scale
    /\ events = 0
    /\ Version("space")

\* OrbitSimulation.update_simulation of space.py, once a frame, with the
\* sliders at timestep and sun_mass; snap keeps the places the bodies had
\* when the call began and last the places each body's force was computed
\* from
update_simulation(timestep, sun_mass) ==
    /\ program = "space"
    /\ ticks < MaxTicks
    /\ ticks' = ticks + 1
    /\ IF paused THEN UNCHANGED <<heap, snap, last, pdt>>
       ELSE LET r == UpdateBodies(WithSunMass(heap, bodies, sun_mass),
                                  bodies, 1, timestep, <<>>)
            IN /\ heap' = r.h
               /\ last' = r.read
               /\ snap' = Places(heap, bodies)
               /\ pdt' = timestep
    /\ UNCHANGED <<bodies, prediction_bodies, pc, step, steps, raised,
                   callTicks, raceAt, appVars>>

\* handle_events of space.py, key Space
KeySpace_space ==
    /\ program = "space"
    /\ Handled
    /\ paused' = ~paused
    /\ UNCHANGED <<heap, bodies, raised, ticks, predictorVars,
                   creating_planet, edit_mode, selected_body,
                   creation_input_boxes, edit_input_boxes, show_predictions,
                   prediction_counter, time_scale>>

NextSpace ==
    \/ \E timestep \in DtSet, sun_mass \in SunMassSet :
          update_simulation(timestep, sun_mass)
    \/ KeySpace_space

SpecSpace == InitSpace /\ [][NextSpace]_vars

(***************************************************************************)
(* Properties of the integrator (specification Spec).                      *)
(***************************************************************************)
N == Len(bodies)

\* a step of the live simulation
IsTick == ticks' = ticks + 1 /\ raised' = "none"

RECURSIVE NetForce(_, _, _, _)
\* the sum over j in 1..k, j # i, of the force on body i from body j, for
\* the bodies of heap h
NetForce(h, ids, i, k) ==
    IF k = 0 THEN [fx |-> 0, fy |-> 0]
    ELSE LET rest == NetForce(h, ids, i, k - 1)
             f == calculate_force_from(h[ids[i]], h[ids[k]])
         IN IF k = i THEN rest
            ELSE [fx |-> rest.fx + f.fx, fy |-> rest.fy + f.fy]

SamePlace(a, b) == a.x = b.x /\ a.y = b.y /\ a.vx = b.vx /\ a.vy = b.vy

\* C1: a selected body keeps its x, y, vx, vy over every step, whatever the
\* force on it; in a tick every body that is not selected gets in its
\* accumulator the forces of all the others, the selected one included, and
\* is moved by that force.
C1_FixedBodyInvariance ==
    [][\A i \in 1..N :
         LET b == heap[bodies[i]]
             c == heap'[bodies[i]]
             f == NetForce(heap, bodies, i, N)
         IN /\ b.selected => SamePlace(b, c)
            /\ (IsTick /\ ~b.selected) =>
                  /\ c.fx = f.fx /\ c.fy = f.fy
                  /\ \E dt \in DtSet :
                        /\ c.vx = b.vx + FMul(FDiv(f.fx, b.mass), dt)
                        /\ c.vy = b.vy + FMul(FDiv(f.fy, b.mass), dt)
                        /\ c.x = b.x + FMul(c.vx, dt)
                        /\ c.y = b.y + FMul(c.vy, dt)]_vars

\* C1 witness: after a tick a selected body with a force on it stands where
\* it started, next to a body the tick has moved.
C1_Witness ==
    /\ ticks >= 2
    /\ \E i \in 1..N : \E j \in 1..N :
          /\ heap[bodies[i]].selected
          /\ heap[bodies[i]].fx # 0
          /\ heap[bodies[i]].trail = <<>>
          /\ ~heap[bodies[j]].selected
          /\ heap[bodies[j]].fx # 0
          /\ heap[bodies[j]].trail # <<>>

\* C8: a tick leaves in the accumulators of every body, selected or not, the
\* sum of the forces of all other bodies at the positions held on entry,
\* whatever the accumulators held before; no force is computed from a
\* position the same tick has already advanced.
C8_AccumulateThenIntegrate ==
    [][IsTick =>
         \A i \in 1..N :
            LET f == NetForce(heap, bodies, i, N)
            IN /\ heap'[bodies[i]].fx = f.fx
               /\ heap'[bodies[i]].fy = f.fy]_vars

\* C8 witness: a second tick has run on three bodies that all held forces
\* from the first, one of them selected, and has moved a body.
C8_Witness ==
    /\ ticks >= 2
    /\ N >= 3
    /\ \A i \in 1..N : heap[bodies[i]].fx # 0
    /\ \E i \in 1..N : heap[bodies[i]].selected
    /\ \E i \in 1..N : Len(heap[bodies[i]].trail) >= 2

\* C9: a tick moves a body that is not selected by semi-implicit Euler: the
\* velocity gets (f / mass) * dt, and the position gets the new velocity
\* times dt.
C9_SemiImplicitEuler ==
    [][IsTick =>
         \E dt \in DtSet :
         \A i \in 1..N :
            LET b == heap[bodies[i]]
                c == heap'[bodies[i]]
            IN ~b.selected =>
                  /\ c.vx = b.vx + FMul(FDiv(c.fx, b.mass), dt)
                  /\ c.vy = b.vy + FMul(FDiv(c.fy, b.mass), dt)
                  /\ c.x = b.x + FMul(c.vx, dt)
                  /\ c.y = b.y + FMul(c.vy, dt)]_vars

\* C9 witness: a tick has given a body a velocity and has moved it by that
\* velocity (dt = 0.5: the last trail points differ by half the velocity).
C9_Witness ==
    \E i \in 1..N :
        LET b == heap[bodies[i]]
            n == Len(b.trail)
        IN /\ n >= 2
           /\ b.fx # 0
           /\ b.vx # 0
           /\ b.trail[n][1] - b.trail[n - 1][1] = FMul(b.vx, Scale \div 2)
           /\ b.trail[n][1] = b.x

\* G * m1 * m2 / MIN_DIST^2
ForceBound(m1, m2) ==
    FDiv(FMul(FMul(G_SIM, m1), m2), FMul(MIN_DIST, MIN_DIST))

Distance(a, b) == Hypot(b.x - a.x, b.y - a.y)

Kinematics(b) == <<b.x, b.y, b.vx, b.vy, b.mass>>

\* the prediction has run all its steps and is about to return
Finished == pc = "loop" /\ step >= steps /\ raised = "none"

\* the prediction_trail of live body i
Trail(i) == heap[bodies[i]].prediction_trail

\* the number of points a call with n steps may record: ceil(n / STRIDE)
MostSamples(n) == (n + STRIDE - 1) \div STRIDE

RECURSIVE Iterate(_, _, _, _)
\* the heap after n calls of apply_mutual_gravity(ids, dt)
Iterate(h, ids, n, dt) ==
    IF n = 0 THEN h
    ELSE LET r == apply_mutual_gravity(h, ids, dt)
         IN IF r.exc # "none" THEN r.h ELSE Iterate(r.h, ids, n - 1, dt)

\* where body i is after n steps taken from the state s of all the bodies,
\* with nothing else running
PlaceAfter(s, i, n, dt) ==
    LET h == Iterate([k \in 1..Len(s) |-> s[k]],
                     [k \in 1..Len(s) |-> k], n, dt)
    IN <<h[i].x, h[i].y>>

\* the working set a call on the state s builds
Copies(s) == [k \in 1..Len(s) |-> copy_state(s[k])]

RECURSIVE Runs(_, _, _, _)
\* the heaps after 1, 2, ..., n calls of apply_mutual_gravity(ids, dt)
Runs(h, ids, n, dt) ==
    IF n = 0 THEN <<>>
    ELSE LET r == apply_mutual_gravity(h, ids, dt)
         IN <<r.h>> \o Runs(r.h, ids, n - 1, dt)

\* the points predict_future_positions records for each body in its first
\* n steps when it runs alone on the state s: the k-th is where the copy of
\* the body is after STRIDE * (k - 1) + 1 steps
RunAlone(s, n, dt) ==
    LET run == Runs(Copies(s), [k \in 1..Len(s) |-> k], n, dt)
    IN [i \in 1..Len(s) |->
          [k \in 1..MostSamples(n) |->
              LET b == run[STRIDE * (k - 1) + 1][i] IN <<b.x, b.y>>]]

\* the prediction_trail of every live body
Trails == [i \in 1..N |-> Trail(i)]

\* C2: no step of predict_future_positions, for any steps >= 0 and however
\* often it is called, changes the x, y, vx, vy or mass of a live body.
C2_PredictNonMutating ==
    [][ticks' = ticks =>
          \A i \in 1..N :
             Kinematics(heap'[bodies[i]]) = Kinematics(heap[bodies[i]])]_vars

\* C2 witness: a second call has run its steps and recorded points, for a
\* live body that is moving.
C2_Witness ==
    /\ Finished
    /\ steps > 0
    /\ last # <<>>
    /\ \E i \in 1..N :
          /\ Trail(i) # <<>>
          /\ heap[bodies[i]].vy # 0
          /\ ~heap[bodies[i]].selected

\* C3: the k-th point (k from 0) in the prediction_trail of live body i is
\* where body i is after 5k+1 calls of apply_mutual_gravity with dt on a
\* copy of the state the bodies had when predict was called, the selected
\* flag being part of that state.
C3_PredictionIsIteratedStep ==
    Finished =>
       \A i \in 1..N :
          \A k \in 0..(Len(Trail(i)) - 1) :
             Trail(i)[k + 1] = PlaceAfter(snap, i, STRIDE * k + 1, pdt)

\* C4: a body that is selected when predict is called is frozen in the
\* prediction: every point of its prediction_trail is the (x, y) it has.
C4_PredictorCopiesFixedFlag ==
    Finished =>
       \A i \in 1..N :
          snap[i].selected =>
             \A k \in 1..Len(Trail(i)) :
                Trail(i)[k] = <<snap[i].x, snap[i].y>>

\* C5: when predict returns, the prediction_trail of each live body holds
\* the points of this call and no other, whatever it held before; and a
\* call that follows a call with the same arguments, with no live tick
\* since that call began, leaves the trails that call left.
C5_PredictReplaces ==
    Finished =>
       /\ Trails = RunAlone(snap, steps, pdt)
       /\ (last # <<>> /\ last[1].steps = steps /\ last[1].from = callTicks)
             => Trails = last[1].trails

\* C5 witness: a call has recorded points over the points an equal call
\* left, with no tick between them.
C5_Witness ==
    /\ Finished
    /\ steps > STRIDE
    /\ last # <<>>
    /\ last[1].steps = steps
    /\ last[1].from = callTicks
    /\ \E i \in 1..N : Len(last[1].trails[i]) > 1 /\ Len(Trail(i)) > 1

C7_PrivateCopy ==
    [][/\ Range(prediction_bodies') \cap Range(bodies') = {}
       /\ (pc' = "loop" /\ raised' = "none") =>
             Trails' = RunAlone(snap', step', pdt')
       /\ (pc = "loop" /\ step' = step + 1) =>
             \A i \in 1..N :
                Kinematics(heap'[bodies[i]]) = Kinematics(heap[bodies[i]])]_vars

\* C7 witness: a live tick came between two steps of a prediction, moved a
\* live body, and the prediction went on to record a point after it.
C7_Witness ==
    /\ Finished
    /\ steps > STRIDE
    /\ raceAt > 0
    /\ raceAt <= STRIDE
    /\ ticks > callTicks
    /\ \E i \in 1..N :
          /\ Len(Trail(i)) >= 2
          /\ <<heap[bodies[i]].x, heap[bodies[i]].y>> # <<snap[i].x, snap[i].y>>

(***************************************************************************)
(* Properties of the force between two bodies (specification SpecPair).    *)
(***************************************************************************)
\* G * real_mass1 * real_mass2 as calculate_force_from of a multiplies it:
\* from the left, the mass of a first
MassProduct(a, b) == FMul(FMul(G_SIM, a.mass), b.mass)

\* how far two roundings of one product G * m1 * m2 can lie apart
ProductRounding(a, b) == Max(a.mass, b.mass) \div Scale + 1

RECURSIVE Totals(_, _, _)
\* over the first k bodies: the sums of mass * vx, mass * vy, fx, fy, mass
Totals(h, ids, k) ==
    IF k = 0 THEN [px |-> 0, py |-> 0, fx |-> 0, fy |-> 0, mass |-> 0]
    ELSE LET b == h[ids[k]]
             t == Totals(h, ids, k - 1)
         IN [px |-> t.px + b.mass * b.vx, py |-> t.py + b.mass * b.vy,
             fx |-> t.fx + b.fx, fy |-> t.fy + b.fy,
             mass |-> t.mass + b.mass]

NoneSelected == \A i \in 1..N : ~heap[bodies[i]].selected

\* the mass products of all pairs round the same in either order
ProductsAgree ==
    \A i \in 1..N : \A j \in 1..N :
        MassProduct(heap[bodies[i]], heap[bodies[j]])
            = MassProduct(heap[bodies[j]], heap[bodies[i]])

\* C12: with no body selected, a call of apply_mutual_gravity leaves forces
\* that sum to zero over the bodies (the mass products rounding alike), and
\* the sums of mass * vx and of mass * vy after it are what they were
\* before it plus dt times the sum of the forces, up to the rounding of
\* mass * (f / mass) * dt, which is below 2 * mass for each body.
C12_MomentumConserved ==
    [][(IsTick /\ NoneSelected) =>
          LET p == Totals(heap, bodies, N)
              q == Totals(heap', bodies, N)
          IN /\ ProductsAgree => q.fx = 0 /\ q.fy = 0
             /\ \E dt \in DtSet :
                   /\ Abs(q.px - p.px - q.fx * dt) <= 2 * p.mass
                   /\ Abs(q.py - p.py - q.fy * dt) <= 2 * p.mass]_vars

\* C12 witness: two ticks have run on three bodies, none selected, each
\* with a force on it, and the forces sum to zero.
C12_Witness ==
    /\ ticks >= 2
    /\ N >= 3
    /\ NoneSelected
    /\ ProductsAgree
    /\ \A i \in 1..N : heap[bodies[i]].fx # 0 /\ heap[bodies[i]].vx # 0
    /\ Totals(heap, bodies, N).fx = 0

\* C13: a call of apply_mutual_gravity on a list of exactly one body, not
\* selected, leaves vx, vy as they are and adds (vx * dt, vy * dt) to the
\* position; on an empty list it changes nothing; neither call fails.
C13_SingleBodyStraightLine ==
    [][ticks' = ticks + 1 =>
          /\ N = 0 => heap' = heap /\ raised' = "none"
          /\ (N = 1 /\ ~heap[bodies[1]].selected) =>
                LET b == heap[bodies[1]]
                    c == heap'[bodies[1]]
                IN /\ raised' = "none"
                   /\ c.vx = b.vx /\ c.vy = b.vy
                   /\ c.fx = 0 /\ c.fy = 0
                   /\ \E dt \in DtSet :
                         /\ c.x = b.x + FMul(b.vx, dt)
                         /\ c.y = b.y + FMul(b.vy, dt)]_vars

\* C13 witness: a body alone in the list, not selected, has been moved by
\* its velocity over several ticks.
C13_Witness ==
    /\ N = 1
    /\ ticks >= 3
    /\ raised = "none"
    /\ LET b == heap[bodies[1]]
       IN /\ ~b.selected
          /\ b.vy # 0
          /\ b.fx = 0 /\ b.fy = 0
          /\ Len(b.trail) >= 2
          /\ b.trail[Len(b.trail)] = <<b.x, b.y>>

(***************************************************************************)
(* Properties of the application (specification SpecApp).                  *)
(***************************************************************************)
\* C14: mass stays positive: after any sequence of creations, edits,
\* presets and resets every body of the list has mass > 0 (a creation or
\* an edit with a mass of 0 or less would have to be rejected for this)
C14_MassPositive ==
    \A i \in 1..Len(bodies) : heap[bodies[i]].mass > 0

\* the edit dialog is closed with a mass value of 0 or less in its mass
\* box: by Enter, which applies the boxes, or by Escape
InvalidEdit ==
    /\ edit_mode
    /\ ~edit_mode'
    /\ AnyActive(edit_input_boxes)
    /\ get_value(edit_input_boxes[1]) <= 0

\* C15: an invalid edit is rejected and the prior state is kept: when the
\* edit dialog is applied with a mass value of 0 or less, the body keeps
\* the mass, vx and vy it had, and the ticks that follow raise nothing
C15_InvalidEditRejected ==
    /\ [][InvalidEdit =>
            /\ heap'[selected_body].mass = heap[selected_body].mass
            /\ heap'[selected_body].vx = heap[selected_body].vx
            /\ heap'[selected_body].vy = heap[selected_body].vy]_vars
    /\ [](raised = "none")

\* the fields of a body that the physics moves
Motion(b) == <<b.x, b.y, b.vx, b.vy, b.trail>>

\* C18: pause and dialogs stop the physics: a call of update_physics made
\* while paused, creating_planet or edit_mode is set changes no body's x,
\* y, vx, vy or trail and runs no prediction; the Space key flips paused;
\* and a call made while all three are unset advances the bodies by one
\* apply_mutual_gravity of dt = time_scale
C18_StoppedPhysics ==
    /\ [][ticks' = ticks + 1 =>
            IF paused \/ creating_planet \/ edit_mode
            THEN /\ \A i \in 1..N :
                       /\ Motion(heap'[bodies[i]]) = Motion(heap[bodies[i]])
                       /\ heap'[bodies[i]].prediction_trail
                             = heap[bodies[i]].prediction_trail
                 /\ prediction_counter' = prediction_counter
                 /\ raised' = raised
            ELSE LET r == apply_mutual_gravity(heap, bodies, time_scale)
                 IN \A i \in 1..N :
                       Motion(heap'[bodies[i]]) = Motion(r.h[bodies[i]])]_vars
    /\ [][KeySpace => paused' = ~paused]_vars

\* frames have passed after the Space key paused the simulation at its
\* start: the sun has recorded no trail point
C18_Witness ==
    /\ paused
    /\ ticks > 0
    /\ events = 1
    /\ heap[bodies[1]].trail = <<>>

\* box i is the active box of a dialog, and the only one
OnlyActive(boxes, i) == \A j \in 1..Len(boxes) : boxes[j].active <=> j = i

\* C20: Tab moves between fields: in the creation dialog (5 boxes) and in
\* the edit dialog (3 boxes), one Tab key press while box i is the active
\* box leaves the box after it, or the first box after the last, as the
\* only active box
C20_TabMovesFocus ==
    [][/\ \A i \in 1..Len(creation_input_boxes) :
             (/\ CreationEvent("tab", "-", 0)
              /\ OnlyActive(creation_input_boxes, i))
                => OnlyActive(creation_input_boxes',
                              (i % Len(creation_input_boxes)) + 1)
       /\ \A i \in 1..Len(edit_input_boxes) :
             (/\ EditEvent("tab", "-", 0)
              /\ OnlyActive(edit_input_boxes, i))
                => OnlyActive(edit_input_boxes',
                              (i % Len(edit_input_boxes)) + 1)]_vars

(***************************************************************************)
(* Properties of space_beta.py (specification SpecBeta).                   *)
(***************************************************************************)
\* C19: a body is frozen only while it is being edited: after any right
\* clicks on bodies and Enter or Escape key presses, whenever edit_mode is
\* False every body of the list has selected = False
C19_FrozenOnlyWhileEdited ==
    ~edit_mode => \A i \in 1..N : ~heap[bodies[i]].selected

(***************************************************************************)
(* Properties of the trails (specification SpecTrail).                     *)
(***************************************************************************)
\* the point that update_trail records for a body
TrailPoint(prog, b) ==
    IF prog = "space_beta" THEN <<IntPart(b.x), IntPart(b.y)>>
    ELSE <<b.x, b.y>>

\* C16: the trail is capped: after any ticks and trail clears no trail is
\* longer than the cap of the version (500, or 200 in space_beta.py); a
\* tick leaves a trail as it is, or appends the body's new place to it,
\* or, when the trail is full, appends the new place and drops exactly
\* the oldest point, the others keeping their order
C16_TrailCapped ==
    /\ [](\A i \in 1..N : Len(heap[bodies[i]].trail) <= TrailCap(program))
    /\ [][ticks' = ticks + 1 =>
            \A i \in 1..N :
               LET t == heap[bodies[i]].trail
                   u == heap'[bodies[i]].trail
                   cap == TrailCap(program)
                   p == TrailPoint(program, heap'[bodies[i]])
               IN \/ u = t
                  \/ Len(t) < cap /\ u = Append(t, p)
                  \/ Len(t) = cap /\ u = Append(Tail(t), p)]_vars

\* a full trail whose oldest point is no longer the first point of the
\* flight: a tick has dropped it
C16_Witness ==
    /\ ticks > 0
    /\ \E i \in 1..N :
          LET b == heap[bodies[i]]
              first == [b EXCEPT !.x = FMul(b.vx, pdt),
                                 !.y = (i - 1) * 100 * Scale + FMul(b.vy, pdt)]
          IN /\ Len(b.trail) = TrailCap(program)
             /\ b.trail[1] # TrailPoint(program, first)

(***************************************************************************)
(* Properties of space.py (specification SpecSpace).                       *)
(***************************************************************************)
\* C17: in space.py one tick of update_simulation computes the force on
\* every body other than the sun from the places all bodies held when the
\* tick began: no force uses a place that another body was already moved
\* to in the same tick
C17_ForcesFromTickStart ==
    [][(ticks' = ticks + 1 /\ ~paused) =>
          \A k \in 1..N :
             ~heap[bodies[k]].is_sun => last'[k] = Places(heap, bodies)]_vars

(***************************************************************************)
(* spave_0_3.py: the planet creation wizard.  Its list input_boxes is held *)
(* in creation_input_boxes; positions of the mouse are in pixels.          *)
(***************************************************************************)
\* WIDTH, HEIGHT = 1000, 700
WIDTH_03 == 1000
HEIGHT_03 == 700
SUN_RADIUS_03 == 20
\* max(50, min(1000, mass)) of create_planet_from_input
MASS_MIN_03 == 50
MASS_MAX_03 == 1000
\* speed = 5.0
SPEED_03 == 5
\* the four steps of the wizard
LAST_STEP_03 == 4

\* one more event is taken from the queue
Taken == events < MaxEvents /\ events' = events + 1

\* create_sun of spave_0_3.py: Body(WIDTH // 2, HEIGHT // 2, 600, 0, 0)
Sun_03 ==
    Body((WIDTH_03 \div 2) * Scale, (HEIGHT_03 \div 2) * Scale, 600 * Scale,
         0, 0)

\* setup_input_boxes of spave_0_3.py: X, Y, Mass, Direction
WizardBoxes ==
    << InputBox(<<"0">>), InputBox(<<"0">>), InputBox(<<"3", "0", "0">>),
       InputBox(<<"0">>) >>

\* str(n) of an int n
IntText(n) == (IF n < 0 THEN <<"-">> ELSE <<>>) \o NaturalText(Abs(n))

\* math.cos and math.sin of math.radians(d), rounded toward zero, for the
\* quarter turns and for the directions that a box holding 0 gives when
\* nines are typed into it: 9, 99 and 999 % 360 = 279 degrees
CosDeg(d) ==
    CASE d = 0 -> Scale
      [] d = 9 * Scale -> (98 * Scale) \div 100
      [] d = 90 * Scale -> 0
      [] d = 99 * Scale -> -((15 * Scale) \div 100)
      [] d = 180 * Scale -> -Scale
      [] d = 270 * Scale -> 0
      [] d = 279 * Scale -> (15 * Scale) \div 100

SinDeg(d) ==
    CASE d = 0 -> 0
      [] d = 9 * Scale -> (15 * Scale) \div 100
      [] d = 90 * Scale -> Scale
      [] d = 99 * Scale -> (98 * Scale) \div 100
      [] d = 180 * Scale -> 0
      [] d = 270 * Scale -> -Scale
      [] d = 279 * Scale -> -((98 * Scale) \div 100)

\* the radius Body.__init__ was given: SUN_RADIUS for the sun, which is the
\* first body of the list, max(8, int(mass / 50)) for a planet
Radius_03(h, ids, k) ==
    IF k = 1 THEN SUN_RADIUS_03 * Scale
    ELSE Max(8, h[ids[k]].mass \div (50 * Scale)) * Scale

\* math.sqrt(dx ** 2 + dy ** 2) <= r: the root is taken only of a dx and
\* dy that are within r themselves
Within(dx, dy, r) ==
    Abs(dx) <= r /\ Abs(dy) <= r /\ Hypot(dx, dy) <= r

\* get_body_at_position of spave_0_3.py: the place in the list of the first
\* body within its radius of pixel p, 0 for None
get_body_at_position_03(p, h, ids) ==
    LET hit == { k \in 1..Len(ids) :
                   Within(h[ids[k]].x - p[1] * Scale,
                          h[ids[k]].y - p[2] * Scale, Radius_03(h, ids, k)) }
    IN IF hit = {} THEN 0 ELSE CHOOSE k \in hit : \A j \in hit : k <= j

\* create_planet_from_input of spave_0_3.py: the new planet
Planet_03(boxes) ==
    Body((WIDTH_03 \div 2) * Scale + get_value(boxes[1]),
         (HEIGHT_03 \div 2) * Scale - get_value(boxes[2]),
         Max(MASS_MIN_03 * Scale,
             IF get_value(boxes[3]) > MASS_MAX_03 * Scale
             THEN MASS_MAX_03 * Scale ELSE get_value(boxes[3])),
         SPEED_03 * CosDeg(get_value(boxes[4]) % (360 * Scale)),
         -(SPEED_03 * SinDeg(get_value(boxes[4]) % (360 * Scale))))

\* InputBox.handle_event of spave_0_3.py, of every box, for a key that is
\* not Return: Backspace drops the last character of an active box, a
\* printable key adds its character, and Escape is not printable
KeyInto_03(boxes, key) ==
    [i \in 1..Len(boxes) |->
        IF ~boxes[i].active \/ key = "escape" THEN boxes[i]
        ELSE IF key = "backspace"
        THEN [boxes[i] EXCEPT !.text = SubSeq(@, 1, Len(@) - 1)]
        ELSE [boxes[i] EXCEPT !.text = Append(@, key)]]

RECURSIVE EnterLoop_03(_, _)
\* handle_planet_creation, the loop over the boxes for a Return key, from
\* box i on; w holds creation_step, input_boxes, creating_planet and the
\* bodies
EnterLoop_03(w, i) ==
    IF i > Len(w.boxes) THEN w
    ELSE IF ~(w.boxes[i].active /\ i = w.step) THEN EnterLoop_03(w, i + 1)
    ELSE IF w.step < LAST_STEP_03
    THEN EnterLoop_03(
            [w EXCEPT !.step = w.step + 1,
                      !.boxes = [[w.boxes EXCEPT ![w.step + 1].active = TRUE]
                                    EXCEPT ![i].active = FALSE]],
            i + 1)
    ELSE EnterLoop_03(
            [step |-> 1, creating |-> FALSE, boxes |-> Deactivated(w.boxes),
             h |-> Append(w.h, Planet_03(w.boxes)),
             ids |-> Append(w.ids, Len(w.h) + 1)],
            i + 1)

InitWizard ==
    /\ bodies = <<1>>
    /\ heap = <<Sun_03>>
    /\ prediction_bodies = <<>>
    /\ pc = "idle"
    /\ step = 0
    /\ steps = 0
    /\ pdt = DT_BETA
    /\ raised = "none"
    /\ ticks = 0
    /\ snap = <<>>
    /\ callTicks = 0
    /\ raceAt = -1
    /\ last = <<>>
    /\ paused = FALSE
    /\ creating_planet = FALSE
    /\ edit_mode = FALSE
    /\ selected_body = 0
    /\ creation_input_boxes = WizardBoxes
    /\ edit_input_boxes = <<>>
    /\ show_predictions = FALSE
    /\ prediction_counter = -1
    /\ time_scale = Scale
    /\ events = 0
    /\ program = "spave_0_3"
    /\ creation_step = 1
    /\ camera = Camera
    /\ touch_buttons = <<>>

\* what no handler of the events of spave_0_3.py touches
idleVars_03 == <<raised, ticks, predictorVars, paused, edit_input_boxes,
                 show_predictions, prediction_counter, time_scale, program,
                 camera, touch_buttons>>

\* the pixels of the right clicks
ClickSet_03 == { <<700, 350>>, <<300, 250>> }

\* the keys pressed in the wizard besides Return and Escape
Keys_03 == {"9", "x", "backspace"}

\* handle_events of spave_0_3.py, right mouse button at pixel p: on a body
\* the body is selected for editing, elsewhere the wizard opens with the
\* place of the click in its first two boxes
RightClick_03(p) ==
    /\ program = "spave_0_3"
    /\ ~creating_planet
    /\ Taken
    /\ \E k \in {get_body_at_position_03(p, heap, bodies)} :
          IF k # 0
          THEN /\ edit_mode' = TRUE
               /\ selected_body' = bodies[k]
               /\ heap' = [heap EXCEPT ![bodies[k]].selected = TRUE]
               /\ UNCHANGED <<creating_planet, creation_step,
                              creation_input_boxes>>
          ELSE /\ creating_planet' = TRUE
               /\ creation_step' = 1
               /\ creation_input_boxes' =
                    [creation_input_boxes EXCEPT
                       ![1] = [text |-> IntText(p[1] - WIDTH_03 \div 2),
                               active |-> TRUE],
                       ![2].text = IntText(HEIGHT_03 \div 2 - p[2])]
               /\ UNCHANGED <<heap, edit_mode, selected_body>>
    /\ UNCHANGED <<bodies, idleVars_03>>

\* handle_planet_creation for a mouse click on box k (0: on no box)
WizardClick(k) ==
    /\ program = "spave_0_3"
    /\ creating_planet
    /\ Taken
    /\ creation_input_boxes' = ClickAt(creation_input_boxes, k)
    /\ UNCHANGED <<heap, bodies, creating_planet, creation_step, edit_mode,
                   selected_body, idleVars_03>>

\* handle_planet_creation for a key that is not Return
WizardKey(key) ==
    /\ program = "spave_0_3"
    /\ creating_planet
    /\ Taken
    /\ IF key = "escape"
       THEN /\ creating_planet' = FALSE
            /\ creation_step' = 1
            /\ creation_input_boxes' = Deactivated(creation_input_boxes)
       ELSE /\ creation_input_boxes' = KeyInto_03(creation_input_boxes, key)
            /\ UNCHANGED <<creating_planet, creation_step>>
    /\ UNCHANGED <<heap, bodies, edit_mode, selected_body, idleVars_03>>

\* handle_planet_creation for the Return key
WizardEnter ==
    /\ program = "spave_0_3"
    /\ creating_planet
    /\ Taken
    /\ \E w \in {EnterLoop_03([step |-> creation_step,
                               creating |-> creating_planet,
                               boxes |-> creation_input_boxes,
                               h |-> heap, ids |-> bodies], 1)} :
          /\ creation_step' = w.step
          /\ creating_planet' = w.creating
          /\ creation_input_boxes' = w.boxes
          /\ heap' = w.h
          /\ bodies' = w.ids
    /\ UNCHANGED <<edit_mode, selected_body, idleVars_03>>

\* handle_events of spave_0_3.py, a key while no wizard is open: Return
\* and Escape end the editing of a body, R resets to the sun alone
Key_03(key) ==
    /\ program = "spave_0_3"
    /\ ~creating_planet
    /\ Taken
    /\ IF edit_mode /\ selected_body # 0
       THEN /\ heap' = [heap EXCEPT ![selected_body].selected = FALSE]
            /\ edit_mode' = FALSE
            /\ selected_body' = 0
            /\ UNCHANGED bodies
       ELSE IF key = "r"
       THEN /\ heap' = Append(heap, Sun_03)
            /\ bodies' = <<Len(heap) + 1>>
            /\ edit_mode' = FALSE
            /\ selected_body' = 0
       ELSE UNCHANGED <<heap, bodies, edit_mode, selected_body>>
    /\ UNCHANGED <<creating_planet, creation_step, creation_input_boxes,
                   idleVars_03>>

NextWizard ==
    \/ \E p \in ClickSet_03 : RightClick_03(p)
    \/ \E k \in 0..Len(WizardBoxes) : WizardClick(k)
    \/ \E key \in Keys_03 \cup {"escape"} : WizardKey(key)
    \/ WizardEnter
    \/ \E key \in {"return", "escape", "r"} : Key_03(key)

SpecWizard == InitWizard /\ [][NextWizard]_vars

\* C21: the wizard has four steps: creation_step stays in 1..4, one Return
\* key advances creation_step by exactly one, and a planet is created, and
\* the wizard closed, only by a Return key pressed while creation_step is 4
C21_FourSteps ==
    [][/\ creation_step' \in 1..LAST_STEP_03
       /\ (WizardEnter /\ creation_step < LAST_STEP_03
             /\ creation_input_boxes[creation_step].active)
            => creation_step' = creation_step + 1
       /\ (program = "spave_0_3" /\ Len(bodies') > Len(bodies))
            => creation_step = LAST_STEP_03]_vars

(***************************************************************************)
(* space_0_6.py.  time_scale is held in units of 1 / TIME_ONE, in which    *)
(* every halving and doubling between the two limits is exact.  mass, vx   *)
(* and vy of a body hold a float or a tuple: such a value is the sequence  *)
(* of its components, one for a float and two for a pair.                  *)
(***************************************************************************)
\* G = 0.5
G_06 == Scale \div 2
\* MIN_DIST = 5
MIN_DIST_06 == 5 * Scale
\* the step and the cap of update_trail
TRAIL_STEP_06 == 2 * Scale
TRAIL_CAP_06 == 300
\* self.time_scale = 1.0
TIME_ONE == 819200
\* MIN_TIME_SCALE = 0.01, MAX_TIME_SCALE = 100.0
MIN_TIME_SCALE == TIME_ONE \div 100
MAX_TIME_SCALE == 100 * TIME_ONE

\* the float v, and whether a value is a float
Float(v) == <<v>>
IsFloat(value) == Len(value) = 1

\* Body.__init__ of space_0_6.py
Body_06(x, y, mass, vx, vy) ==
    [x |-> x, y |-> y, mass |-> Float(mass), vx |-> Float(vx),
     vy |-> Float(vy), trail |-> <<>>, prediction_trail |-> <<>>,
     selected |-> FALSE, fx |-> 0, fy |-> 0]

\* Body.calculate_force_from of space_0_6.py: G * self.mass * other.mass
\* raises TypeError when one of the masses is a tuple
calculate_force_from_06(self, other) ==
    IF ~IsFloat(self.mass) \/ ~IsFloat(other.mass)
    THEN [exc |-> "TypeError", fx |-> 0, fy |-> 0]
    ELSE LET dx == other.x - self.x
             dy == other.y - self.y
             distance == Max(MIN_DIST_06, Hypot(dx, dy))
             force_magnitude ==
                 FDiv(FMul(FMul(G_06, self.mass[1]), other.mass[1]),
                      FMul(distance, distance))
         IN [exc |-> "none",
             fx |-> FDiv(FMul(force_magnitude, dx), distance),
             fy |-> FDiv(FMul(force_magnitude, dy), distance)]

\* Body.update_trail of space_0_6.py
update_trail_06(b) ==
    LET n == Len(b.trail)
        appended ==
            IF n = 0 \/ Abs(b.trail[n][1] - b.x) > TRAIL_STEP_06
                     \/ Abs(b.trail[n][2] - b.y) > TRAIL_STEP_06
            THEN Append(b.trail, <<b.x, b.y>>)
            ELSE b.trail
    IN [b EXCEPT !.trail = IF Len(appended) > TRAIL_CAP_06 THEN Tail(appended)
                           ELSE appended]

\* Body.apply_force of space_0_6.py: fx / self.mass raises TypeError for a
\* mass that is a tuple and ZeroDivisionError for a mass of 0; self.vx +=
\* ax * dt raises TypeError for a vx that is a tuple
apply_force_06(b, fx, fy, dt) ==
    IF b.selected THEN [exc |-> "none", body |-> b]
    ELSE IF ~IsFloat(b.mass) THEN [exc |-> "TypeError", body |-> b]
    ELSE IF b.mass[1] = 0 THEN [exc |-> "ZeroDivisionError", body |-> b]
    ELSE IF ~IsFloat(b.vx) \/ ~IsFloat(b.vy)
    THEN [exc |-> "TypeError", body |-> b]
    ELSE LET ax == FDiv(fx, b.mass[1])
             ay == FDiv(fy, b.mass[1])
             vx == b.vx[1] + FMul(ax, dt)
             vy == b.vy[1] + FMul(ay, dt)
             moved == [b EXCEPT !.vx = Float(vx), !.vy = Float(vy),
                                !.x = b.x + FMul(vx, dt),
                                !.y = b.y + FMul(vy, dt)]
         IN [exc |-> "none", body |-> update_trail_06(moved)]

RECURSIVE AccumulateForces_06(_, _, _, _)
\* the double loop over (i, j) of space_0_6.py, from pair (i, j) on
AccumulateForces_06(h, ids, i, j) ==
    IF i > Len(ids) THEN [exc |-> "none", h |-> h]
    ELSE IF j > Len(ids) THEN AccumulateForces_06(h, ids, i + 1, 1)
    ELSE IF i = j THEN AccumulateForces_06(h, ids, i, j + 1)
    ELSE LET f == calculate_force_from_06(h[ids[i]], h[ids[j]])
         IN IF f.exc # "none" THEN [exc |-> f.exc, h |-> h]
            ELSE AccumulateForces_06(
                    [h EXCEPT ![ids[i]].fx = @ + f.fx, ![ids[i]].fy = @ + f.fy],
                    ids, i, j + 1)

RECURSIVE ApplyForces_06(_, _, _, _)
\* for body in bodies: body.apply_force(body.fx, body.fy, dt)
ApplyForces_06(h, ids, k, dt) ==
    IF k > Len(ids) THEN [exc |-> "none", h |-> h]
    ELSE LET b == h[ids[k]]
             r == apply_force_06(b, b.fx, b.fy, dt)
         IN IF r.exc # "none" THEN [exc |-> r.exc, h |-> h]
            ELSE ApplyForces_06([h EXCEPT ![ids[k]] = r.body], ids, k + 1, dt)

\* apply_mutual_gravity of space_0_6.py
apply_mutual_gravity_06(h, ids, dt) ==
    LET acc == AccumulateForces_06(ResetForces(h, ids), ids, 1, 1)
    IN IF acc.exc # "none" THEN acc ELSE ApplyForces_06(acc.h, ids, 1, dt)

\* Camera.__init__ of space_0_6.py: zoom is 0.5
Camera_06 ==
    [zoom |-> Scale \div 2, pan_x |-> 0, pan_y |-> 0, dragging |-> FALSE,
     last_mouse_pos |-> <<0, 0>>]

\* create_sun of space_0_6.py
Sun_06 == Body_06(0, 0, 800 * Scale, 0, 0)

\* create_planet_from_input of space_0_6.py for a right click on empty
\* space at world (200, 0) and Enter: the dialog has two Y boxes, so that
\* the mass is read from the second of them (0, raised to 50), vx from the
\* Mass box (300, cut to 50) and vy from the Vx box
Planet_06 == Body_06(200 * Scale, 0, 50 * Scale, 50 * Scale, 0)

\* OrbitSimulation.__init__ of space_0_6.py, but for self.bodies
Fields_06 ==
    /\ prediction_bodies = <<>>
    /\ pc = "idle"
    /\ step = 0
    /\ steps = 0
    /\ pdt = TIME_ONE \div 2
    /\ raised = "none"
    /\ ticks = 0
    /\ snap = <<>>
    /\ callTicks = 0
    /\ raceAt = -1
    /\ last = <<>>
    /\ paused = FALSE
    /\ creating_planet = FALSE
    /\ edit_mode = FALSE
    /\ selected_body = 0
    /\ creation_input_boxes = <<>>
    /\ edit_input_boxes = EditBoxes
    /\ show_predictions = FALSE
    /\ prediction_counter = -1
    /\ time_scale = TIME_ONE
    /\ events = 0
    /\ program = "space_0_6"
    /\ creation_step = 1
    /\ camera = Camera_06
    /\ touch_buttons = <<>>

\* the program starts with the sun alone
Init_06 == bodies = <<1>> /\ heap = <<Sun_06>> /\ Fields_06

\* what no handler of space_0_6.py that the model runs touches
idleVars_06 == <<predictorVars, creating_planet, creation_input_boxes,
                 show_predictions, prediction_counter, program,
                 creation_step, touch_buttons>>

\* the keys [ and ] without the limits
Key_06_unlimited(key) ==
    /\ program = "space_0_6"
    /\ raised = "none"
    /\ ~creating_planet /\ ~edit_mode
    /\ events < MaxKeys
    /\ events' = events + 1
    /\ key \in {"[", "]"}
    /\ time_scale' = IF key = "[" THEN time_scale \div 2 ELSE time_scale * 2
    /\ UNCHANGED <<heap, bodies, paused, camera, selected_body, edit_mode>>
    /\ UNCHANGED <<raised, ticks, edit_input_boxes, idleVars_06>>

\* handle_events of space_0_6.py, a key while no dialog is open: Space,
\* [, ] and R; the bodies that R drops from the list leave the heap
Key_06(key) ==
    /\ program = "space_0_6"
    /\ raised = "none"
    /\ ~creating_planet /\ ~edit_mode
    /\ events < MaxKeys
    /\ events' = events + 1
    /\ paused' = IF key = "space" THEN ~paused
                 ELSE IF key = "r" THEN FALSE ELSE paused
    /\ time_scale' =
          IF key = "[" THEN Max(MIN_TIME_SCALE, time_scale \div 2)
          ELSE IF key = "]"
          THEN (IF time_scale * 2 > MAX_TIME_SCALE THEN MAX_TIME_SCALE
                ELSE time_scale * 2)
          ELSE IF key = "r" THEN TIME_ONE
          ELSE time_scale
    /\ IF key = "r"
       THEN /\ heap' = <<Sun_06>>
            /\ bodies' = <<1>>
            /\ camera' = Camera_06
            /\ edit_mode' = FALSE
            /\ selected_body' = 0
       ELSE UNCHANGED <<heap, bodies, camera, edit_mode, selected_body>>
    /\ UNCHANGED <<raised, ticks, edit_input_boxes, idleVars_06>>

\* update_physics of space_0_6.py, once a frame: pdt is the dt that is
\* passed to apply_mutual_gravity, in the units of time_scale; the physics
\* of the model rounds it to its floats
update_physics_06 ==
    /\ program = "space_0_6"
    /\ raised = "none"
    /\ ticks < MaxFrames
    /\ ticks' = ticks + 1
    /\ IF ~paused /\ ~creating_planet /\ ~edit_mode
       THEN \E dt \in {time_scale \div 2} :
            \E r \in {apply_mutual_gravity_06(heap, bodies,
                                              dt \div (TIME_ONE \div Scale))} :
               /\ pdt' = dt
               /\ heap' = r.h
               /\ raised' = r.exc
       ELSE UNCHANGED <<heap, raised, pdt>>
    /\ UNCHANGED <<bodies, prediction_bodies, pc, step, steps, snap,
                   callTicks, raceAt, last, appVars>>

\* the keys of the time control: [, ], R and Space
TimeKeys == {"[", "]", "r", "space"}

\* the time control: keys pressed between frames
NextTime ==
    \/ \E key \in TimeKeys : Key_06(key)
    \/ update_physics_06

SpecTime == Init_06 /\ [][NextTime]_vars

TypeInto_06(boxes, c) ==
    [i \in 1..Len(boxes) |->
        IF /\ boxes[i].active
           /\ \/ IsDigit(c)
              \/ c = "." /\ "." \notin Range(boxes[i].text)
              \/ c = "-" /\ boxes[i].text = <<>>
        THEN [boxes[i] EXCEPT !.text = Append(@, c)]
        ELSE boxes[i]]

\* apply_edit_values of space_0_6.py: each of the three assignments has a
\* tuple on its right, "1000, box.get_value()" for the mass and
\* "50, box.get_value()" for vx and vy
apply_edit_values_06(h, sel, boxes) ==
    [h |-> IF sel # 0
           THEN [h EXCEPT
                   ![sel].mass = <<1000 * Scale, get_value(boxes[1])>>,
                   ![sel].vx = <<50 * Scale, get_value(boxes[2])>>,
                   ![sel].vy = <<50 * Scale, get_value(boxes[3])>>]
           ELSE h,
     boxes |-> Deactivated(boxes)]

\* handle_events of space_0_6.py, right mouse button on body i: the edit
\* dialog opens with the values of the body in its boxes; set_value rounds
\* the value, which raises TypeError for a tuple
RightClickBody_06(i) ==
    /\ program = "space_0_6"
    /\ raised = "none"
    /\ ~creating_planet /\ ~edit_mode
    /\ Taken
    /\ i \in 1..Len(bodies)
    /\ edit_mode' = TRUE
    /\ selected_body' = bodies[i]
    /\ heap' = [heap EXCEPT ![bodies[i]].selected = TRUE]
    /\ IF ~IsFloat(heap[bodies[i]].mass)
       THEN raised' = "TypeError" /\ UNCHANGED edit_input_boxes
       ELSE /\ edit_input_boxes' =
                 << [text |-> PlainText(heap[bodies[i]].mass[1]),
                     active |-> TRUE],
                    [edit_input_boxes[2] EXCEPT
                       !.text = PlainText(heap[bodies[i]].vx[1])],
                    [edit_input_boxes[3] EXCEPT
                       !.text = PlainText(heap[bodies[i]].vy[1])] >>
            /\ UNCHANGED raised
    /\ UNCHANGED <<bodies, ticks, paused, time_scale, camera, idleVars_06>>

\* handle_planet_editing of space_0_6.py for one event of the edit dialog:
\* a key typed, Tab, a mouse click on box k, Enter, Escape
EditEvent_06(kind, c, k) ==
    /\ program = "space_0_6"
    /\ raised = "none"
    /\ ~creating_planet
    /\ edit_mode
    /\ selected_body # 0
    /\ Taken
    /\ \/ /\ kind = "key"
          /\ edit_input_boxes' = TypeInto_06(edit_input_boxes, c)
          /\ UNCHANGED <<heap, edit_mode, selected_body>>
       \/ /\ kind = "tab"
          /\ edit_input_boxes' = TabThrough(edit_input_boxes, 1)
          /\ UNCHANGED <<heap, edit_mode, selected_body>>
       \/ /\ kind = "click"
          /\ edit_input_boxes' = ClickAt(edit_input_boxes, k)
          /\ UNCHANGED <<heap, edit_mode, selected_body>>
       \/ /\ kind = "enter"
          /\ AnyActive(edit_input_boxes)
          /\ \E r \in {apply_edit_values_06(heap, selected_body,
                                            edit_input_boxes)} :
                /\ heap' = [r.h EXCEPT ![selected_body].selected = FALSE]
                /\ edit_input_boxes' = r.boxes
          /\ edit_mode' = FALSE
          /\ selected_body' = 0
       \/ /\ kind = "escape"
          /\ edit_mode' = FALSE
          /\ heap' = [heap EXCEPT ![selected_body].selected = FALSE]
          /\ selected_body' = 0
          /\ edit_input_boxes' = Deactivated(edit_input_boxes)
    /\ UNCHANGED <<bodies, raised, ticks, paused, time_scale, camera,
                   idleVars_06>>

\* the characters typed into the boxes
TypedChars_06 == {"5", "-", "."}

\* the program with the sun alone, or with the sun and a planet made in the
\* creation dialog
InitEdit_06 ==
    /\ \/ bodies = <<1>> /\ heap = <<Sun_06>>
       \/ bodies = <<1, 2>> /\ heap = <<Sun_06, Planet_06>>
    /\ Fields_06

\* the edit dialog: right clicks on bodies and the events of the dialog,
\* between frames
NextEdit_06 ==
    \/ \E i \in 1..MaxBodies : RightClickBody_06(i)
    \/ \E kind \in EventKinds, c \in TypedChars_06, k \in EditClicks :
          EditEvent_06(kind, c, k)
    \/ update_physics_06

SpecEdit_06 == InitEdit_06 /\ [][NextEdit_06]_vars

\* C25: Enter in the edit dialog stores single numbers, those of the three
\* boxes, in mass, vx and vy of the selected body, and no frame after it
\* raises TypeError
C25_EditStoresNumbers ==
    /\ [][EditEvent_06("enter", "5", 0)
            => /\ heap'[selected_body].mass
                    = Float(get_value(edit_input_boxes[1]))
               /\ heap'[selected_body].vx
                    = Float(get_value(edit_input_boxes[2]))
               /\ heap'[selected_body].vy
                    = Float(get_value(edit_input_boxes[3]))]_vars
    /\ [](raised # "TypeError")

(***************************************************************************)
(* space_touch.py: the touch buttons and the camera.  Positions of the     *)
(* mouse are in pixels; the masses of the bodies are in whole units.       *)
(***************************************************************************)
\* WIDTH, HEIGHT = 1000, 700
WIDTH_TOUCH == 1000
HEIGHT_TOUCH == 700
\* MIN_ZOOM = 0.0000001, MAX_ZOOM = 5.0, ZOOM_SPEED = 1.2
MIN_ZOOM_TOUCH == ZOOM_ONE \div 10000000
MAX_ZOOM_TOUCH == 5 * ZOOM_ONE
ZOOM_SPEED_TOUCH == (12 * Scale) \div 10
\* MIN_TIME_SCALE = 0.01, MAX_TIME_SCALE = 10000
MIN_TIME_SCALE_TOUCH == Scale \div 100
MAX_TIME_SCALE_TOUCH == 10000 * Scale
\* setup_touch_buttons: button_width, button_height, button_spacing, y1 and
\* x_start = WIDTH - 380
BUTTON_WIDTH == 70
BUTTON_HEIGHT == 35
BUTTON_SPACING == 5
BUTTON_TOP == 10
BUTTON_LEFT == WIDTH_TOUCH - 380

\* pygame.Rect(x, y, w, h) and Rect.collidepoint
Rect(x, y, w, h) == [x |-> x, y |-> y, w |-> w, h |-> h]

collidepoint(rect, p) ==
    /\ rect.x <= p[1] /\ p[1] < rect.x + rect.w
    /\ rect.y <= p[2] /\ p[2] < rect.y + rect.h

\* TouchButton.__init__
TouchButton(x, y, width, height, action) ==
    [rect |-> Rect(x, y, width, height), action |-> action,
     is_pressed |-> FALSE, is_hovered |-> FALSE, enabled |-> TRUE]

\* setup_touch_buttons: two rows of four buttons and one of two
setup_touch_buttons ==
    LET pitch == BUTTON_WIDTH + BUTTON_SPACING
        y2 == BUTTON_TOP + BUTTON_HEIGHT + BUTTON_SPACING
        y3 == y2 + BUTTON_HEIGHT + BUTTON_SPACING
        wide == 2 * BUTTON_WIDTH + BUTTON_SPACING
        row1 == <<"toggle_pause", "slow_time", "fast_time", "clear_trails">>
        row2 == <<"toggle_grid", "reset_normal", "reset_empty", "stop_follow">>
    IN [k \in 1..4 |-> TouchButton(BUTTON_LEFT + (k - 1) * pitch, BUTTON_TOP,
                                   BUTTON_WIDTH, BUTTON_HEIGHT, row1[k])]
       \o [k \in 1..4 |-> TouchButton(BUTTON_LEFT + (k - 1) * pitch, y2,
                                      BUTTON_WIDTH, BUTTON_HEIGHT, row2[k])]
       \o << TouchButton(BUTTON_LEFT, y3, wide, BUTTON_HEIGHT, "zoom_in"),
             TouchButton(BUTTON_LEFT + wide + BUTTON_SPACING, y3, wide,
                         BUTTON_HEIGHT, "zoom_out") >>

\* Body.__init__ of space_touch.py
Body_touch(x, y, mass, vx, vy, radius) ==
    [x |-> x, y |-> y, mass |-> mass, vx |-> vx, vy |-> vy,
     radius |-> radius, trail |-> <<>>, selected |-> FALSE,
     fx |-> 0, fy |-> 0]

\* create_sun, create_earth and create_moon
System_touch ==
    << Body_touch(0, 0, 27000000, 0, 0, 20 * Scale),
       Body_touch(40000 * Scale, 0, 81, 0, (2324 * Scale) \div 100,
                  12 * Scale),
       Body_touch(40050 * Scale, 0, 1, 0, (2437 * Scale) \div 100,
                  4 * Scale) >>

\* 1 / zoom: the length in the world that one pixel shows
PerPixel(zoom) == (ZOOM_ONE * Scale) \div zoom

\* Camera.screen_to_world
screen_to_world(cam, p) ==
    << (p[1] - WIDTH_TOUCH \div 2) * PerPixel(cam.zoom) - cam.pan_x,
       (p[2] - HEIGHT_TOUCH \div 2) * PerPixel(cam.zoom) - cam.pan_y >>

\* Camera.world_to_screen: int() of the place on the screen, which is not
\* negative for what the screen shows
world_to_screen(cam, w) ==
    << (w[1] + cam.pan_x) \div PerPixel(cam.zoom) + WIDTH_TOUCH \div 2,
       (w[2] + cam.pan_y) \div PerPixel(cam.zoom) + HEIGHT_TOUCH \div 2 >>

\* max(MIN_ZOOM, min(MAX_ZOOM, new_zoom))
ClampZoom(z) == Max(MIN_ZOOM_TOUCH, IF z > MAX_ZOOM_TOUCH THEN MAX_ZOOM_TOUCH
                                    ELSE z)

\* Camera.zoom_at_point on pixel p: a camera that follows a body keeps its
\* pan
zoom_at_point(cam, p, zoom_factor) ==
    IF cam.follow # 0
    THEN [cam EXCEPT !.zoom = ClampZoom(FMul(cam.zoom, zoom_factor))]
    ELSE LET world == screen_to_world(cam, p)
             zoomed == [cam EXCEPT
                          !.zoom = ClampZoom(FMul(cam.zoom, zoom_factor))]
             new_screen == world_to_screen(zoomed, world)
         IN [zoomed EXCEPT
               !.pan_x = @ + (p[1] - new_screen[1]) * PerPixel(zoomed.zoom),
               !.pan_y = @ + (p[2] - new_screen[2]) * PerPixel(zoomed.zoom)]

\* Camera.update_drag
update_drag(cam, p) ==
    IF ~cam.dragging THEN cam
    ELSE [cam EXCEPT
            !.pan_x = @ + (p[1] - cam.last_mouse_pos[1]) * PerPixel(cam.zoom),
            !.pan_y = @ + (p[2] - cam.last_mouse_pos[2]) * PerPixel(cam.zoom),
            !.last_mouse_pos = p]

\* Camera.update_follow
update_follow(cam, h) ==
    IF cam.follow = 0 THEN cam
    ELSE [cam EXCEPT !.pan_x = -h[cam.follow].x, !.pan_y = -h[cam.follow].y]

\* get_body_at_position of space_touch.py: the first body of the list
\* within its radius of the place in the world that pixel p shows, 0 for
\* None
get_body_at_position_touch(p, h, ids, cam) ==
    LET world == screen_to_world(cam, p)
        hit == { k \in 1..Len(ids) :
                   Within(h[ids[k]].x - world[1], h[ids[k]].y - world[2],
                          h[ids[k]].radius) }
    IN IF hit = {} THEN 0
       ELSE ids[CHOOSE k \in hit : \A j \in hit : k <= j]

\* TouchButton.handle_event for the left mouse button going down or up, or
\* the mouse moving, at pixel p: the button afterwards and what the call
\* returns, "None", "True" or the action of the button
ButtonEvent(button, type, p) ==
    LET hovered == collidepoint(button.rect, p) /\ button.enabled
        seen == [button EXCEPT !.is_hovered = hovered]
    IN IF type = "down" /\ hovered
       THEN [button |-> [seen EXCEPT !.is_pressed = TRUE], result |-> "True"]
       ELSE IF type = "up" /\ button.is_pressed
       THEN [button |-> [seen EXCEPT !.is_pressed = FALSE],
             result |-> IF hovered THEN button.action ELSE "None"]
       ELSE [button |-> seen, result |-> "None"]

RECURSIVE ButtonLoop(_, _, _, _)
\* handle_events, the loop over the buttons from button i on: the buttons
\* afterwards and the action to carry out, "None" when there is none; the
\* loop ends at the first button that returns its action
ButtonLoop(buttons, i, type, p) ==
    IF i > Len(buttons) THEN [buttons |-> buttons, action |-> "None"]
    ELSE LET r == ButtonEvent(buttons[i], type, p)
             after == [buttons EXCEPT ![i] = r.button]
         IN IF r.result \notin {"None", "True"}
            THEN [buttons |-> after, action |-> r.result]
            ELSE ButtonLoop(after, i + 1, type, p)

\* handle_touch_button_action on the fields a of the simulation
handle_touch_button_action(a, action) ==
    CASE action = "toggle_pause" -> [a EXCEPT !.paused = ~a.paused]
      [] action = "slow_time" ->
            [a EXCEPT !.time_scale = Max(MIN_TIME_SCALE_TOUCH, @ \div 2)]
      [] action = "fast_time" ->
            [a EXCEPT !.time_scale = IF 2 * @ > MAX_TIME_SCALE_TOUCH
                                     THEN MAX_TIME_SCALE_TOUCH ELSE 2 * @]
      [] action = "clear_trails" ->
            [a EXCEPT !.heap = [k \in DOMAIN a.heap |->
                                  IF k \in Range(a.bodies)
                                  THEN [a.heap[k] EXCEPT !.trail = <<>>]
                                  ELSE a.heap[k]]]
      [] action = "reset_normal" ->
            [a EXCEPT !.heap = System_touch,
                      !.bodies = [k \in 1..Len(System_touch) |-> k],
                      !.camera = Camera, !.edit_mode = FALSE,
                      !.selected_body = 0, !.paused = TRUE,
                      !.time_scale = Scale]
      [] action = "reset_empty" ->
            [a EXCEPT !.bodies = <<>>,
                      !.camera = Camera, !.edit_mode = FALSE,
                      !.selected_body = 0, !.paused = TRUE,
                      !.time_scale = Scale]
      [] action = "stop_follow" -> [a EXCEPT !.camera.follow = 0]
      [] action = "zoom_in" ->
            [a EXCEPT !.camera =
                zoom_at_point(@, <<WIDTH_TOUCH \div 2, HEIGHT_TOUCH \div 2>>,
                              ZOOM_SPEED_TOUCH)]
      [] action = "zoom_out" ->
            [a EXCEPT !.camera =
                zoom_at_point(@, <<WIDTH_TOUCH \div 2, HEIGHT_TOUCH \div 2>>,
                              FDiv(Scale, ZOOM_SPEED_TOUCH))]
      [] OTHER -> a

\* handle_events, what follows the loop over the buttons when no dialog is
\* open: the left mouse button down selects the body under it, which the
\* camera then follows, or starts a drag; the mouse moving drags; the left
\* mouse button up ends the drag
MouseBranch(a, type, p) ==
    IF type = "down"
    THEN LET clicked_body ==
                get_body_at_position_touch(p, a.heap, a.bodies, a.camera)
         IN IF clicked_body # 0
            THEN [a EXCEPT !.selected_body = clicked_body,
                           !.camera.follow = clicked_body]
            ELSE [a EXCEPT !.selected_body = 0,
                           !.camera.dragging = TRUE,
                           !.camera.last_mouse_pos = p]
    ELSE IF type = "motion" THEN [a EXCEPT !.camera = update_drag(@, p)]
    ELSE [a EXCEPT !.camera.dragging = FALSE]

\* OrbitSimulation.__init__ of space_touch.py: the program starts paused,
\* with Sun, Earth and Moon
InitTouch ==
    /\ bodies = <<1, 2, 3>>
    /\ heap = System_touch
    /\ prediction_bodies = <<>>
    /\ pc = "idle"
    /\ step = 0
    /\ steps = 0
    /\ pdt = Scale \div 2
    /\ raised = "none"
    /\ ticks = 0
    /\ snap = <<>>
    /\ callTicks = 0
    /\ raceAt = -1
    /\ last = <<>>
    /\ paused = TRUE
    /\ creating_planet = FALSE
    /\ edit_mode = FALSE
    /\ selected_body = 0
    /\ creation_input_boxes = <<>>
    /\ edit_input_boxes = <<>>
    /\ show_predictions = FALSE
    /\ prediction_counter = -1
    /\ time_scale = Scale
    /\ events = 0
    /\ program = "space_touch"
    /\ creation_step = 1
    /\ camera = Camera
    /\ touch_buttons = setup_touch_buttons

\* what no handler of space_touch.py that the model runs touches
idleVars_touch == <<raised, predictorVars, creating_planet,
                    creation_input_boxes, edit_input_boxes, show_predictions,
                    prediction_counter, program, creation_step>>

\* the pixels of the mouse: the middle of the screen, where the sun is
\* shown at first, a place below it, and places on the buttons Stop Follow
\* and Zoom In
MouseSet == { <<500, 350>>, <<500, 630>>, <<900, 70>>, <<700, 105>> }

\* the left mouse button down or up, or the mouse moving
MouseTypes == {"down", "up", "motion"}

\* handle_events of space_touch.py for one event of the mouse at pixel p,
\* no dialog being open: the buttons are asked first, and the event is
\* then handled as any other
MouseEvent_touch(type, p) ==
    /\ program = "space_touch"
    /\ ~creating_planet /\ ~edit_mode
    /\ Taken
    /\ \E r \in {ButtonLoop(touch_buttons, 1, type, p)} :
       \E a \in {MouseBranch(
                    handle_touch_button_action(
                       [paused |-> paused, time_scale |-> time_scale,
                        heap |-> heap, bodies |-> bodies, camera |-> camera,
                        edit_mode |-> edit_mode,
                        selected_body |-> selected_body], r.action),
                    type, p)} :
          /\ touch_buttons' = r.buttons
          /\ paused' = a.paused
          /\ time_scale' = a.time_scale
          /\ heap' = a.heap
          /\ bodies' = a.bodies
          /\ camera' = a.camera
          /\ edit_mode' = a.edit_mode
          /\ selected_body' = a.selected_body
    /\ UNCHANGED <<ticks, idleVars_touch>>

\* run of space_touch.py, the rest of a frame while the program is paused,
\* as it is from its start: update_physics does nothing, and the camera
\* moves to the body it follows
Frame_touch ==
    /\ program = "space_touch"
    /\ paused \/ creating_planet \/ edit_mode
    /\ ticks < MaxFrames
    /\ ticks' = ticks + 1
    /\ camera' = update_follow(camera, heap)
    /\ UNCHANGED <<heap, bodies, paused, time_scale, edit_mode, selected_body,
                   touch_buttons, events, idleVars_touch>>

NextTouch ==
    \/ \E type \in MouseTypes, p \in MouseSet : MouseEvent_touch(type, p)
    \/ Frame_touch

SpecTouch == InitTouch /\ [][NextTouch]_vars

\* an enabled button is shown at pixel p
OnButton(p) ==
    \E i \in 1..Len(touch_buttons) :
        touch_buttons[i].enabled /\ collidepoint(touch_buttons[i].rect, p)

\* C23: a left mouse button down on an enabled touch button starts no drag
\* of the camera, leaves selected_body as it is and gives the camera no
\* body to follow
C23_ButtonClickHandledOnce ==
    [][\A p \in MouseSet :
          (OnButton(p) /\ MouseEvent_touch("down", p))
             => /\ camera'.dragging = camera.dragging
                /\ selected_body' = selected_body
                /\ camera'.follow = camera.follow]_vars

(***************************************************************************)
(* space_0_4.py: the edit dialog with its five boxes, Mass, Velocity X,    *)
(* Velocity Y, Speed and Direction.                                        *)
(***************************************************************************)
\* apply_edit_values: max(50, ...) of the mass
MASS_MIN_04 == 50

\* Body.__init__ of space_0_4.py
Body_04(x, y, mass, vx, vy) ==
    [x |-> x, y |-> y, mass |-> mass, vx |-> vx, vy |-> vy, trail |-> <<>>,
     selected |-> FALSE, fx |-> 0, fy |-> 0]

\* create_sun of space_0_4.py
Sun_04 == Body_04(0, 0, 600 * Scale, 0, 0)

\* create_planet_from_input of space_0_4.py for the boxes X 200, Y 0, Mass
\* 300, Velocity X 5, Velocity Y 0, Direction 0
PlanetAlongX_04 == Body_04(200 * Scale, 0, 300 * Scale, 5 * Scale, 0)

\* create_planet_from_input of space_0_4.py for the boxes X 200, Y 0, Mass
\* 300, Velocity X 0, Velocity Y 3, Direction 0
PlanetAlongY_04 == Body_04(200 * Scale, 0, 300 * Scale, 0, 3 * Scale)

\* Body.get_velocity_magnitude
get_velocity_magnitude(b) == Hypot(b.vx, b.vy)

\* Body.get_velocity_angle: math.degrees(math.atan2(vy, vx)), for the
\* velocities along an axis or a diagonal
get_velocity_angle(b) ==
    CASE b.vy = 0 /\ b.vx >= 0 -> 0
      [] b.vy = 0 /\ b.vx < 0 -> 180 * Scale
      [] b.vx = 0 /\ b.vy > 0 -> 90 * Scale
      [] b.vx = 0 /\ b.vy < 0 -> -(90 * Scale)
      [] b.vx = b.vy /\ b.vx > 0 -> 45 * Scale
      [] b.vx = b.vy /\ b.vx < 0 -> -(135 * Scale)
      [] b.vx = -b.vy /\ b.vx > 0 -> -(45 * Scale)
      [] b.vx = -b.vy /\ b.vx < 0 -> 135 * Scale

\* setup_input_boxes of space_0_4.py: the five boxes of the edit dialog
EditBoxes_04 ==
    << InputBox(<<"0">>), InputBox(<<"0">>), InputBox(<<"0">>),
       InputBox(<<"0">>), InputBox(<<"0">>) >>

\* handle_events of space_0_4.py, the right click on body b: what set_value
\* writes into the five boxes, str() of the mass and of the rounded vx, vy,
\* speed and angle
Prefill_04(b) ==
    << PlainText(b.mass), PlainText(b.vx), PlainText(b.vy),
       PlainText(get_velocity_magnitude(b)),
       PlainText(get_velocity_angle(b)) >>

\* InputBox.handle_event of space_0_4.py, of every box, for the key
\* Backspace or a printable key: a number box takes a digit, a point when
\* its text has none, and a minus sign when its text is empty
KeyInto_04(boxes, key) ==
    [i \in 1..Len(boxes) |->
        IF ~boxes[i].active THEN boxes[i]
        ELSE IF key = "backspace"
        THEN [boxes[i] EXCEPT !.text = SubSeq(@, 1, Len(@) - 1)]
        ELSE IF \/ IsDigit(key)
                \/ key = "." /\ "." \notin Range(boxes[i].text)
                \/ key = "-" /\ boxes[i].text = <<>>
        THEN [boxes[i] EXCEPT !.text = Append(@, key)]
        ELSE boxes[i]]

\* apply_edit_values of space_0_4.py: the velocity comes from the Speed
\* and Direction boxes unless both read 0, and from the Velocity X and
\* Velocity Y boxes otherwise
apply_edit_values_04(h, sel, boxes) ==
    LET vx_input == get_value(boxes[2])
        vy_input == get_value(boxes[3])
        speed_input == get_value(boxes[4])
        direction_input == get_value(boxes[5])
        speed == IF speed_input = 0 THEN get_velocity_magnitude(h[sel])
                 ELSE speed_input
        direction == IF direction_input = 0 THEN get_velocity_angle(h[sel])
                     ELSE direction_input
    IN [h |-> IF sel = 0 THEN h
              ELSE IF speed_input # 0 \/ direction_input # 0
              THEN [h EXCEPT
                      ![sel].mass = Max(MASS_MIN_04 * Scale,
                                        get_value(boxes[1])),
                      ![sel].vx = FMul(speed, CosDeg(direction)),
                      ![sel].vy = FMul(speed, SinDeg(direction))]
              ELSE [h EXCEPT
                      ![sel].mass = Max(MASS_MIN_04 * Scale,
                                        get_value(boxes[1])),
                      ![sel].vx = vx_input,
                      ![sel].vy = vy_input],
        boxes |-> Deactivated(boxes)]

\* one more event of the edit dialog is taken from the queue
Taken_04 == events < MaxEdits /\ events' = events + 1

\* OrbitSimulation.__init__ of space_0_4.py, the program then paused with
\* the key Space: with the sun alone, or with the sun and a planet made in
\* the creation dialog that moves along x or along y
InitEdit_04 ==
    /\ \/ bodies = <<1>> /\ heap = <<Sun_04>>
       \/ bodies = <<1, 2>> /\ heap = <<Sun_04, PlanetAlongX_04>>
       \/ bodies = <<1, 2>> /\ heap = <<Sun_04, PlanetAlongY_04>>
    /\ prediction_bodies = <<>>
    /\ pc = "idle"
    /\ step = 0
    /\ steps = 0
    /\ pdt = Scale \div 2
    /\ raised = "none"
    /\ ticks = 0
    /\ snap = <<>>
    /\ callTicks = 0
    /\ raceAt = -1
    /\ last = <<>>
    /\ paused = TRUE
    /\ creating_planet = FALSE
    /\ edit_mode = FALSE
    /\ selected_body = 0
    /\ creation_input_boxes = <<>>
    /\ edit_input_boxes = EditBoxes_04
    /\ show_predictions = FALSE
    /\ prediction_counter = -1
    /\ time_scale = Scale
    /\ events = 0
    /\ program = "space_0_4"
    /\ creation_step = 1
    /\ camera = Camera
    /\ touch_buttons = <<>>

\* what no event of the edit dialog of space_0_4.py touches
idleVars_04 == <<bodies, raised, ticks, predictorVars, paused,
                 creating_planet, creation_input_boxes, show_predictions,
                 prediction_counter, time_scale, program, creation_step,
                 camera, touch_buttons>>

\* handle_events of space_0_4.py, right mouse button on body i: the edit
\* dialog opens with the values of the body in its boxes and the Mass box
\* active
RightClickBody_04(i) ==
    /\ program = "space_0_4"
    /\ ~creating_planet /\ ~edit_mode
    /\ Taken_04
    /\ i \in 1..Len(bodies)
    /\ edit_mode' = TRUE
    /\ selected_body' = bodies[i]
    /\ heap' = [heap EXCEPT ![bodies[i]].selected = TRUE]
    /\ edit_input_boxes' =
          [k \in 1..Len(edit_input_boxes) |->
              [text |-> Prefill_04(heap[bodies[i]])[k],
               active |-> (k = 1) \/ edit_input_boxes[k].active]]
    /\ UNCHANGED idleVars_04

\* handle_planet_editing of space_0_4.py for one event of the edit dialog:
\* a key typed, Tab, a mouse click on box k, Enter, Escape
EditEvent_04(kind, c, k) ==
    /\ program = "space_0_4"
    /\ ~creating_planet
    /\ edit_mode
    /\ selected_body # 0
    /\ Taken_04
    /\ \/ /\ kind = "key"
          /\ edit_input_boxes' = KeyInto_04(edit_input_boxes, c)
          /\ UNCHANGED <<heap, edit_mode, selected_body>>
       \/ /\ kind = "tab"
          /\ edit_input_boxes' = TabThrough(edit_input_boxes, 1)
          /\ UNCHANGED <<heap, edit_mode, selected_body>>
       \/ /\ kind = "click"
          /\ edit_input_boxes' = ClickAt(edit_input_boxes, k)
          /\ UNCHANGED <<heap, edit_mode, selected_body>>
       \/ /\ kind = "enter"
          /\ AnyActive(edit_input_boxes)
          /\ \E r \in {apply_edit_values_04(heap, selected_body,
                                            edit_input_boxes)} :
                /\ heap' = [r.h EXCEPT ![selected_body].selected = FALSE]
                /\ edit_input_boxes' = r.boxes
          /\ edit_mode' = FALSE
          /\ selected_body' = 0
       \/ /\ kind = "escape"
          /\ edit_mode' = FALSE
          /\ heap' = [heap EXCEPT ![selected_body].selected = FALSE]
          /\ selected_body' = 0
          /\ edit_input_boxes' = Deactivated(edit_input_boxes)
    /\ UNCHANGED idleVars_04

\* the keys typed into the boxes
Keys_04 == {"7", "backspace"}

\* the boxes clicked: Velocity X and Velocity Y
EditClicks_04 == {2, 3}

NextEdit_04 ==
    \/ \E i \in 1..MaxBodies : RightClickBody_04(i)
    \/ \E kind \in EventKinds, c \in Keys_04, k \in EditClicks_04 :
          EditEvent_04(kind, c, k)

SpecEdit_04 == InitEdit_04 /\ [][NextEdit_04]_vars

\* since the dialog opened, the texts of the Velocity X and Velocity Y
\* boxes have changed and those of the other boxes have not
OnlyVelocityChanged ==
    /\ edit_mode /\ selected_body # 0
    /\ \E opened \in {Prefill_04(heap[selected_body])} :
          /\ edit_input_boxes[1].text = opened[1]
          /\ edit_input_boxes[2].text # opened[2]
          /\ edit_input_boxes[3].text # opened[3]
          /\ edit_input_boxes[4].text = opened[4]
          /\ edit_input_boxes[5].text = opened[5]

\* C24: Enter in the edit dialog of space_0_4.py, after only the Velocity X
\* and Velocity Y boxes were changed, sets vx and vy of the body to the
\* values of these two boxes, whether or not the body was moving
C24_DirectComponents ==
    [][(OnlyVelocityChanged /\ EditEvent_04("enter", "7", 2))
          => /\ heap'[selected_body].vx = get_value(edit_input_boxes[2])
             /\ heap'[selected_body].vy = get_value(edit_input_boxes[3])]_vars

(***************************************************************************)
(* space_0_7.py: the selection and the two dialogs.                        *)
(***************************************************************************)
\* C26: edit_mode is on exactly when a body is selected; the selected body
\* is then in the list of bodies and the only one of them marked selected;
\* with edit_mode off no body of the list is marked; the edit dialog and the
\* creation dialog are never open together
C26_EditModeInvariant ==
    /\ edit_mode <=> selected_body # 0
    /\ edit_mode =>
          /\ selected_body \in Range(bodies)
          /\ \A k \in Range(bodies) : heap[k].selected <=> k = selected_body
    /\ ~edit_mode => \A k \in Range(bodies) : ~heap[k].selected
    /\ ~(edit_mode /\ creating_planet)

\* the edit dialog is open on the second of several bodies, after a frame
C26_Witness ==
    /\ program = "space_0_7"
    /\ edit_mode
    /\ Len(bodies) > 1
    /\ selected_body = bodies[2]
    /\ heap[selected_body].selected
    /\ ticks > 0

(***************************************************************************)
(* space_0_7.py: what predict_future_positions leaves of the live bodies.  *)
(***************************************************************************)
\* what a live body holds besides its place, velocity, mass and
\* prediction_trail
Bookkeeping(b) == <<b.trail, b.fx, b.fy, b.selected>>

\* C27: no step of predict_future_positions, from its call to its return,
\* changes the trail, fx, fy or selected flag of a live body, or which
\* bodies the list holds and in what order
C27_PredictLeavesLiveState ==
    [][ticks' = ticks =>
          /\ bodies' = bodies
          /\ \A i \in 1..N :
                Bookkeeping(heap'[bodies[i]]) = Bookkeeping(heap[bodies[i]])]_vars

\* C27 witness: a call that recorded points has returned, with a live body
\* selected and another that has a trail and a force from an earlier tick
C27_Witness ==
    /\ pc = "idle"
    /\ last # <<>>
    /\ last[1].steps > 0
    /\ N >= 2
    /\ \E i \in 1..N : heap[bodies[i]].selected
    /\ \E i \in 1..N :
          /\ heap[bodies[i]].trail # <<>>
          /\ heap[bodies[i]].fx # 0
          /\ heap[bodies[i]].prediction_trail # <<>>

====
